---- MODULE Spec2Model ----
(***************************************************************************)
(* Plugin acquisition and lifecycle engine of minecraft-server-manager:    *)
(* PluginManager (plugin_manager.py) with the validator it calls           *)
(* (plugin_validator.py).                                                  *)
(*                                                                         *)
(* Strings that the code inspects character by character (plugin names,    *)
(* file names, glob patterns) are sequences of one-character strings;      *)
(* version strings and timestamps are single tokens of such a sequence.    *)
(***************************************************************************)
EXTENDS Integers, Sequences, FiniteSets, TLC

VARIABLES
    installed,   \* self.installed: list of InstalledPlugin records
    saved,       \* the "plugins" array of installed_plugins.json
    plugdir,     \* plugins_dir: file name -> [content, mtime]
    backupdir,   \* backup_dir: file name -> [content, mtime]
    now,         \* wall clock, one tick per operation
    last,        \* the call that ended last and its Result
    world,       \* the source registries' dependency metadata and archives
    stack,       \* call stack of an install chain (install_plugin frames)
    trace,       \* what the running install chain has done so far
    cache        \* _cache._store of plugin_apis: key -> [ts, value]

vars == <<installed, saved, plugdir, backupdir, now, last, world, stack, trace,
          cache>>

----------------------------------------------------------------------------
(* Bounds of the model *)

\* number of top-level operations in one behaviour (also bounds the clock)
MaxOps == 3

\* interpreter call-depth limit, counted in nested install_plugin calls
MaxDepth == 5

----------------------------------------------------------------------------
(* Strings *)

None == "None"

\* a download URL that is None or empty
NoUrl == <<>>

\* str.lower() on the alphabet of the model
Lower(c) == IF c = "V" THEN "v" ELSE IF c = "X" THEN "x" ELSE c

LowerStr(s) == [i \in DOMAIN s |-> Lower(s[i])]

\* c.isalnum() or c in "-_."
\* (tokens that stand for several such characters included)
SafeChars == {"V", "v", "X", "x", "A", "B", "C", "D", "-", "_", ".", ".jar", ".txt",
              "1", "2", "latest", "download"}

\* "".join(c if c.isalnum() or c in "-_." else "-" for c in name)
SafeName(name) == [i \in DOMAIN name |-> IF name[i] \in SafeChars THEN name[i] ELSE "-"]

IsPrefix(p, s) == Len(p) <= Len(s) /\ \A i \in 1..Len(p) : s[i] = p[i]

EndsWithJar(s) == Len(s) >= 1 /\ s[Len(s)] = ".jar"

\* fnmatch of f"{safe_name}_*.jar" against a file name
GlobMatch(safe, fname) ==
    /\ IsPrefix(safe \o <<"_">>, fname)
    /\ EndsWithJar(fname)
    /\ Len(fname) >= Len(safe) + 2

----------------------------------------------------------------------------
(* Archives and the validator *)

\* Shapes of archive bytes that the code tells apart.
\*   good      zip, manifest version equals the registry's version string
\*   ownver    zip, manifest declares a version string of its own
\*   nover     zip, manifest declares no version
\*   badmember zip with a readable manifest and a corrupt member
\*   wrongtype zip whose manifest is of another platform family
\*   nomanifest zip without any known manifest
\*   notzip    not a zip container
\*   empty     zero bytes
\*   partial   a download cut off after some chunks
GoodKinds == {"good", "ownver", "nover"}
ZipKinds == GoodKinds \cup {"badmember", "wrongtype", "nomanifest"}

\* api-version of a manifest as the YAML reader hands it over: absent, a
\* quoted "major.minor" (a str), an unquoted major.minor (a float), or a
\* str that is no number
ApiVersion(form, major, minor) == [form |-> form, major |-> major, minor |-> minor]

NoApi == ApiVersion("none", 0, 0)

\* an archive: what its bytes are, and what its manifest declares
Jar(kind, mname, ver, plugin_type, api_version, depend) ==
    [kind |-> kind, mname |-> mname, ver |-> ver, plugin_type |-> plugin_type,
     api_version |-> api_version, depend |-> depend]

\* bytes of an archive: what it is, whose it is, which release
Bytes(kind, mname, ver) ==
    Jar(kind, mname, ver, IF kind = "wrongtype" THEN "fabric" ELSE "bukkit", NoApi, <<>>)

NoMeta == [none |-> TRUE]

\* PluginMeta.version of a readable manifest
ManifestVersion(b) ==
    CASE b.kind = "ownver" -> "m" \o b.ver
      [] b.kind = "nover" -> "Unknown"
      [] OTHER -> b.ver

\* extract_plugin_meta: the manifest of a zip, None for anything unreadable
extract_plugin_meta(fname, b) ==
    IF ~EndsWithJar(fname) \/ b.kind \notin (ZipKinds \ {"nomanifest"})
    THEN NoMeta
    ELSE [none |-> FALSE, name |-> b.mname, version |-> ManifestVersion(b),
          plugin_type |-> b.plugin_type, api_version |-> b.api_version,
          depend |-> b.depend]

Issue(sev, fld) == [severity |-> sev, field |-> fld]

\* ValidationResult(plugin_name): valid, no issues; raised marks a call of
\* validate that ended in an exception instead of a result
NewResult == [raised |-> FALSE, is_valid |-> TRUE, issues |-> <<>>]

\* (mutant) an error is listed but the result stays valid
add_error_only_listed(result, fld) ==
    [result EXCEPT !.issues = Append(@, Issue("error", fld))]

\* ValidationResult.add_error
add_error(result, fld) ==
    [result EXCEPT !.issues = Append(@, Issue("error", fld)), !.is_valid = FALSE]

\* ValidationResult.add_warning
add_warning(result, fld) ==
    [result EXCEPT !.issues = Append(@, Issue("warning", fld))]

\* ValidationResult.add_info
add_info(result, fld) ==
    [result EXCEPT !.issues = Append(@, Issue("info", fld))]

\* PluginValidator._check_jar_integrity
check_jar_integrity(b, result) ==
    CASE b.kind = "empty" -> add_error(result, "")
      [] b.kind \in {"notzip", "partial"} -> add_error(result, "")
      [] b.kind = "badmember" -> add_warning(result, "")
      [] OTHER -> result

\* (mutant) proxies take Bukkit plugins too
compatibility_map_lenient(server_type) ==
    CASE server_type \in {"paper", "spigot", "purpur", "velocity", "bungeecord"} -> {"bukkit"}
      [] server_type = "fabric" -> {"fabric"}
      [] server_type = "forge" -> {"forge"}
      [] OTHER -> {}

\* compatibility_map.get(self.server_type, [])
compatibility_map(server_type) ==
    CASE server_type \in {"paper", "spigot", "purpur"} -> {"bukkit"}
      [] server_type = "fabric" -> {"fabric"}
      [] server_type = "forge" -> {"forge"}
      [] server_type = "velocity" -> {"velocity"}
      [] server_type = "bungeecord" -> {"bungeecord"}
      [] OTHER -> {}

\* PluginValidator._check_server_compatibility
check_server_compatibility(meta, server_type, result) ==
    IF meta.plugin_type \notin compatibility_map(server_type)
    THEN add_error(result, "plugin_type")
    ELSE result

\* api_parts[:2] > mc_parts[:2], lists of int
NewerThan(api, mc) ==
    api.major > mc[1] \/ (api.major = mc[1] /\ api.minor > mc[2])

\* PluginValidator._check_mc_version: split() of a float is an
\* AttributeError, which the handler for ValueError lets through
check_mc_version(meta, mc_version, result) ==
    CASE meta.api_version.form = "none" -> result
      [] meta.api_version.form = "number" -> [result EXCEPT !.raised = TRUE]
      [] meta.api_version.form = "words" -> add_info(result, "")
      [] OTHER -> IF NewerThan(meta.api_version, mc_version)
                  THEN add_warning(result, "api_version")
                  ELSE result

RECURSIVE Times(_, _, _)
Times(n, result, fld) ==
    IF n = 0 THEN result ELSE Times(n - 1, add_warning(result, fld), fld)

\* the other jars of the plugin directory that have a manifest
OtherMetas(fname, dir) ==
    {f \in DOMAIN dir : f # fname /\ ~extract_plugin_meta(f, dir[f].content).none}

\* PluginValidator._check_duplicates: a warning per other jar of that name
check_duplicates(meta, fname, dir, result) ==
    Times(Cardinality({f \in OtherMetas(fname, dir) :
                          extract_plugin_meta(f, dir[f].content).name = meta.name}),
          result, "duplicate")

\* PluginValidator._check_dependencies: a warning per hard dependency that
\* no jar of the plugin directory provides
RECURSIVE check_dependencies(_, _, _, _)
check_dependencies(depend, present, i, result) ==
    IF i > Len(depend) THEN result
    ELSE check_dependencies(depend, present, i + 1,
            IF depend[i] \in present THEN result ELSE add_warning(result, "depend"))

\* names of the manifests in the plugin directory
InstalledNames(dir) ==
    {extract_plugin_meta(f, dir[f].content).name :
        f \in {g \in DOMAIN dir : ~extract_plugin_meta(g, dir[g].content).none}}

\* PluginValidator.validate of the jar at fname with bytes b
validate(fname, b, server_type, mc_version, dir) ==
    LET meta == extract_plugin_meta(fname, b)
    IN  IF meta.none
        THEN add_error(NewResult, "")
        ELSE LET r1 == check_jar_integrity(b, NewResult)
                 r2 == check_server_compatibility(meta, server_type, r1)
                 r3 == check_mc_version(meta, mc_version, r2)
                 r4 == check_duplicates(meta, fname, dir, r3)
             IN  IF r3.raised THEN r3
                 ELSE check_dependencies(meta.depend, InstalledNames(dir), 1, r4)

\* the server the manager runs for: paper, Minecraft 1.20
ServerMc == <<1, 20>>

\* PluginValidator.validate as the manager uses it, the issues
ValidateIssues(fname, b) == validate(fname, b, "paper", ServerMc, <<>>).issues

\* validation.is_valid as the manager reads it; the other jars of the plugin
\* directory only ever add warnings
IsValid(fname, b) == validate(fname, b, "paper", ServerMc, <<>>).is_valid

----------------------------------------------------------------------------
(* Registry *)

Record(name, version, source, source_id, filename) ==
    [name |-> name, version |-> version, source |-> source,
     source_id |-> source_id, filename |-> filename]

\* get_plugin: index of the first record whose lower-cased name matches, 0 if none
get_plugin_idx(inst, name) ==
    LET hits == {i \in DOMAIN inst : LowerStr(inst[i].name) = LowerStr(name)}
    IN  IF hits = {} THEN 0 ELSE CHOOSE i \in hits : \A j \in hits : i <= j

\* [p for p in self.installed if p.name != name]
WithoutName(inst, name) ==
    LET Keep(r) == r.name # name IN SelectSeq(inst, Keep)

Exists(dir, fname) == fname \in DOMAIN dir

File(content, mtime) == [content |-> content, mtime |-> mtime]

Put(dir, fname, file) == [f \in DOMAIN dir \cup {fname} |-> IF f = fname THEN file ELSE dir[f]]

Unlink(dir, fname) == [f \in DOMAIN dir \ {fname} |-> dir[f]]

\* backup file name: f"{safe_name}_{plugin.version}_{timestamp}.jar"
BackupName(rec, t) == SafeName(rec.name) \o <<"_", rec.version, "_", ToString(t), ".jar">>

\* _backup_plugin: copy2 keeps the source's mtime; no jar, no backup
backup_plugin(pdir, bdir, rec, t) ==
    IF ~Exists(pdir, rec.filename)
    THEN bdir
    ELSE Put(bdir, BackupName(rec, t), pdir[rec.filename])

\* _restore_latest_backup: the candidates sorted(..., key=mtime, reverse=True)[0]
\* may be: every matching backup of greatest mtime (glob order breaks ties)
LatestBackups(bdir, rec) ==
    LET match == {f \in DOMAIN bdir : GlobMatch(SafeName(rec.name), f)}
    IN  {f \in match : \A g \in match : bdir[g].mtime <= bdir[f].mtime}

----------------------------------------------------------------------------
(* Source registries *)

\* PluginSearchResult: what install_plugin reads of it
Descriptor(id, name, source) == [id |-> id, name |-> name, source |-> source]

\* PluginVersion of release v of a plugin; a Modrinth file URL ends in the file's name
VersionEntry(plugin, v) ==
    [id |-> "id" \o v, version_number |-> v,
     download_url |-> plugin.name \o <<"-", v, ".jar">>]

\* next((v for v in versions if v.id == version_id or v.version_number == version_id), None)
FirstMatch(versions, version_id) ==
    LET hits == {i \in DOMAIN versions :
                    versions[i].id = version_id \/ versions[i].version_number = version_id}
    IN  IF hits = {} THEN 0 ELSE CHOOSE i \in hits : \A j \in hits : i <= j

\* next((v for v in versions if v.id == version_id), None)
FirstMatchById(versions, version_id) ==
    LET hits == {i \in DOMAIN versions : versions[i].id = version_id}
    IN  IF hits = {} THEN 0 ELSE CHOOSE i \in hits : \A j \in hits : i <= j

\* HangarAPI.get_download_url: the address of that version's download,
\* whether or not the HEAD request is redirected
hangar_get_download_url(version_name) == <<"hangar", version_name, "download">>

\* SpigotAPI.get_download_url
spigot_get_download_url(version_id) ==
    IF version_id = "latest" THEN <<"download">> ELSE <<"versions", version_id, "download">>

\* CurseForgeAPI.get_download_url: None unless the endpoint answers
curseforge_get_download_url(file_id, answers) ==
    IF answers THEN <<"files", file_id, "download-url">> ELSE NoUrl

\* versions[0], or the match of an explicit version_id
Target(versions, version_id, m) ==
    IF version_id = None \/ m = 0 THEN versions[1] ELSE versions[m]

\* _resolve_version: (download_url, version_string); a Modrinth URL by its
\* last path segment. answers: the CurseForge download-url endpoint answers
resolve_version(plugin, versions, version_id, answers) ==
    CASE plugin.source = "modrinth" ->
            IF versions = <<>>
            THEN [url |-> NoUrl, version |-> ""]
            ELSE LET target == Target(versions, version_id, FirstMatch(versions, version_id))
                 IN  [url |-> target.download_url, version |-> target.version_number]
      [] plugin.source = "hangar" ->
            IF versions = <<>>
            THEN [url |-> NoUrl, version |-> ""]
            ELSE LET target == Target(versions, version_id, FirstMatch(versions, version_id))
                 IN  [url |-> hangar_get_download_url(target.id),
                      version |-> target.version_number]
      [] plugin.source = "spigotmc" ->
            LET v == IF version_id = None THEN "latest" ELSE version_id
            IN  [url |-> spigot_get_download_url(v), version |-> v]
      [] plugin.source = "curseforge" ->
            IF versions = <<>>
            THEN [url |-> NoUrl, version |-> ""]
            ELSE LET target == Target(versions, version_id,
                                      FirstMatchById(versions, version_id))
                 IN  [url |-> IF target.download_url = NoUrl
                              THEN curseforge_get_download_url(target.id, answers)
                              ELSE target.download_url,
                      version |-> target.version_number]
      [] OTHER -> [url |-> NoUrl, version |-> ""]

\* _safe_filename
safe_filename(name, url) ==
    IF EndsWithJar(url) THEN SafeName(url) ELSE SafeName(name) \o <<".jar">>

----------------------------------------------------------------------------
(* Transactions, as functions of the state they start in *)

State(inst, sv, pdir, bdir) ==
    [installed |-> inst, saved |-> sv, plugdir |-> pdir, backupdir |-> bdir]

Outcome(st, ok, why, dl) == [st |-> st, ok |-> ok, why |-> why, dl |-> dl]

\* the archive a registry serves as release v of a plugin: release 1 is a
\* plain plugin jar; the newest release of "V" carries a corrupt member, that
\* of "v" a manifest with a version string of its own
Genuine(plugin_name, v) ==
    CASE v = "1" -> Bytes("good", plugin_name, v)
      [] plugin_name = <<"V">> -> Bytes("badmember", plugin_name, "2")
      [] plugin_name = <<"v">> -> Bytes("ownver", plugin_name, v)
      [] OTHER -> Bytes("good", plugin_name, v)

\* what _download_file may do: fail before the first byte, fail after some
\* chunks, or write the whole body, which is the release or something else
\* the server answered with status 200
DownloadOutcomes == {"http_error", "partial", "notzip", "genuine"}

Downloaded(plugin_name, v, dl) ==
    IF dl = "genuine" THEN Genuine(plugin_name, v) ELSE Bytes(dl, plugin_name, v)

\* _download_file: the plugin directory afterwards
download_file(pdir, dest, plugin_name, v, dl, t) ==
    IF dl = "http_error"
    THEN pdir
    ELSE Put(pdir, dest, File(Downloaded(plugin_name, v, dl), t))

\* install_plugin from step 4 on (file name, idempotence check, backup,
\* download, validation, registration)
install_steps(st, plugin, url, resolved_version, dl, t) ==
    LET filename == safe_filename(plugin.name, url)
        e == get_plugin_idx(st.installed, plugin.name)
    IN  IF e # 0 /\ st.installed[e].version = resolved_version
        THEN Outcome(st, TRUE, "already_installed", "none")
        ELSE
        LET bdir1 == IF e # 0
                     THEN backup_plugin(st.plugdir, st.backupdir, st.installed[e], t)
                     ELSE st.backupdir
            pdir1 == download_file(st.plugdir, filename, plugin.name, resolved_version, dl, t)
            kind == Downloaded(plugin.name, resolved_version, dl).kind
        IN  IF dl \in {"http_error", "partial"}
            THEN Outcome(State(st.installed, st.saved, pdir1, bdir1), FALSE, "download", dl)
            ELSE IF ~IsValid(filename, pdir1[filename].content)
            THEN Outcome(State(st.installed, st.saved, Unlink(pdir1, filename), bdir1),
                         FALSE, "validation", kind)
            ELSE
            LET meta == extract_plugin_meta(filename, pdir1[filename].content)
                version == IF meta.version # "" THEN meta.version ELSE resolved_version
                record == Record(plugin.name, version, plugin.source, plugin.id, filename)
                inst1 == Append(WithoutName(st.installed, plugin.name), record)
            IN  Outcome(State(inst1, inst1, pdir1, bdir1), TRUE, "installed", kind)

\* _get_versions: the owning adapter's list, nothing for a manual install
get_versions(record, versions) ==
    IF record.source \in {"modrinth", "spigotmc"} THEN versions ELSE <<>>

\* update_plugin; the set of outcomes, one per backup the restore may pick
update_steps(st, plugin_name, versions, dl, t) ==
    LET e == get_plugin_idx(st.installed, plugin_name)
    IN  IF e = 0
        THEN {Outcome(st, FALSE, "not_installed", "none")}
        ELSE
        LET record == st.installed[e]
            vs == get_versions(record, versions)
        IN  IF vs = <<>>
            THEN {Outcome(st, FALSE, "no_versions", "none")}
            ELSE IF vs[1].version_number = record.version
            THEN {Outcome(st, TRUE, "up_to_date", "none")}
            ELSE
            LET latest == vs[1]
                bdir1 == backup_plugin(st.plugdir, st.backupdir, record, t)
                dest == record.filename
                pdir1 == download_file(st.plugdir, dest, record.name,
                                       latest.version_number, dl, t)
                kind == Downloaded(record.name, latest.version_number, dl).kind
            IN  IF dl = "no_url"
                THEN {Outcome(State(st.installed, st.saved, st.plugdir, bdir1),
                              FALSE, "no_url", dl)}
                ELSE IF dl \in {"http_error", "partial"}
                THEN {Outcome(State(st.installed, st.saved, pdir1, bdir1),
                              FALSE, "download", dl)}
                ELSE IF ~IsValid(dest, pdir1[dest].content)
                THEN IF LatestBackups(bdir1, record) = {}
                     THEN {Outcome(State(st.installed, st.saved, pdir1, bdir1),
                                   FALSE, "validation", kind)}
                     ELSE {Outcome(State(st.installed, st.saved,
                                         Put(pdir1, dest, bdir1[b]), bdir1),
                                   FALSE, "validation", kind) :
                              b \in LatestBackups(bdir1, record)}
                ELSE
                LET inst1 == [st.installed EXCEPT ![e].version = latest.version_number]
                IN  {Outcome(State(inst1, inst1, pdir1, bdir1), TRUE, "updated", kind)}

\* uninstall_plugin
uninstall_steps(st, plugin_name, t) ==
    LET e == get_plugin_idx(st.installed, plugin_name)
    IN  IF e = 0
        THEN Outcome(st, FALSE, "not_installed", "none")
        ELSE
        LET record == st.installed[e]
            had == Exists(st.plugdir, record.filename)
            bdir1 == backup_plugin(st.plugdir, st.backupdir, record, t)
            pdir1 == IF had THEN Unlink(st.plugdir, record.filename) ELSE st.plugdir
            inst1 == WithoutName(st.installed, plugin_name)
        IN  Outcome(State(inst1, inst1, pdir1, bdir1), TRUE, "removed", "none")

\* (mutant) the pruned table is not written to the registry file
reconcile_steps_unsaved(st) ==
    LET Has(r) == Exists(st.plugdir, r.filename)
        valid == SelectSeq(st.installed, Has)
    IN  IF Len(valid) < Len(st.installed)
        THEN Outcome(State(valid, st.saved, st.plugdir, st.backupdir), TRUE, "pruned", "none")
        ELSE Outcome(st, TRUE, "listed", "none")

\* get_installed_plugins: drop the records whose jar is gone, save if any was
reconcile_steps(st) ==
    LET Has(r) == Exists(st.plugdir, r.filename)
        valid == SelectSeq(st.installed, Has)
    IN  IF Len(valid) < Len(st.installed)
        THEN Outcome(State(valid, valid, st.plugdir, st.backupdir), TRUE, "pruned", "none")
        ELSE Outcome(st, TRUE, "listed", "none")

\* a file outside the plugin directory, as install_from_file meets it
LocalFile(fname, content, mtime, exists) ==
    [fname |-> fname, content |-> content, mtime |-> mtime, exists |-> exists]

\* (mutant) the file is copied into the plugin directory before validation
install_from_file_steps_copy_first(st, src, t) ==
    IF ~src.exists
    THEN Outcome(st, FALSE, "not_found", "none")
    ELSE IF ~EndsWithJar(src.fname)
    THEN Outcome(st, FALSE, "not_jar", "none")
    ELSE IF ~IsValid(src.fname, src.content)
    THEN Outcome(State(st.installed, st.saved,
                       Put(st.plugdir, src.fname, File(src.content, src.mtime)),
                       st.backupdir),
                 FALSE, "validation", src.content.kind)
    ELSE
    LET meta == extract_plugin_meta(src.fname, src.content)
        e == get_plugin_idx(st.installed, meta.name)
        bdir1 == IF Exists(st.plugdir, src.fname) /\ e # 0
                 THEN backup_plugin(st.plugdir, st.backupdir, st.installed[e], t)
                 ELSE st.backupdir
        pdir1 == Put(st.plugdir, src.fname, File(src.content, src.mtime))
        inst1 == Append(WithoutName(st.installed, meta.name),
                        Record(meta.name, meta.version, "manual", "", src.fname))
    IN  Outcome(State(inst1, inst1, pdir1, bdir1), TRUE, "installed", src.content.kind)

\* install_from_file; copy2 keeps the source file's mtime
install_from_file_steps(st, src, t) ==
    IF ~src.exists
    THEN Outcome(st, FALSE, "not_found", "none")
    ELSE IF ~EndsWithJar(src.fname)
    THEN Outcome(st, FALSE, "not_jar", "none")
    ELSE IF ~IsValid(src.fname, src.content)
    THEN Outcome(st, FALSE, "validation", src.content.kind)
    ELSE
    LET meta == extract_plugin_meta(src.fname, src.content)
        name == meta.name
        version == meta.version
        dest == src.fname
        e == get_plugin_idx(st.installed, name)
        bdir1 == IF Exists(st.plugdir, dest) /\ e # 0
                 THEN backup_plugin(st.plugdir, st.backupdir, st.installed[e], t)
                 ELSE st.backupdir
        pdir1 == Put(st.plugdir, dest, File(src.content, src.mtime))
        record == Record(name, version, "manual", "", dest)
        inst1 == Append(WithoutName(st.installed, name), record)
    IN  Outcome(State(inst1, inst1, pdir1, bdir1), TRUE, "installed", src.content.kind)

----------------------------------------------------------------------------
(* The manager's operations, one call at a time *)

\* the plugins of the lifecycle scenarios: two names that differ in case only
DV == Descriptor("p1", <<"V">>, "spigotmc")
Dv == Descriptor("p2", <<"v">>, "modrinth")
Descriptors == {DV, Dv}

Versions == {"1", "2"}

\* what the owning adapter may list for a plugin, newest first
VersionLists(plugin) ==
    {<<>>, <<VersionEntry(plugin, "2"), VersionEntry(plugin, "1")>>}

\* the files install_from_file is pointed at
LocalFiles ==
    {LocalFile(<<"V", ".jar">>, Bytes("good", <<"v">>, "2"), -1, TRUE),
     LocalFile(<<"V", ".jar">>, Bytes("good", <<"X">>, "1"), -1, TRUE),
     LocalFile(<<"X", ".jar">>, Bytes("notzip", <<"X">>, "1"), -1, TRUE),
     LocalFile(<<"X", ".txt">>, Bytes("good", <<"X">>, "1"), -1, TRUE),
     LocalFile(<<"X", ".jar">>, Bytes("good", <<"X">>, "1"), -1, FALSE)}

NoRec == Record(<<>>, "", "", "", <<>>)
NoFile == File(Bytes("none", <<>>, ""), -1)

RecordOf(inst, name) ==
    IF get_plugin_idx(inst, name) = 0 THEN NoRec ELSE inst[get_plugin_idx(inst, name)]

FileAt(dir, fname) == IF Exists(dir, fname) THEN dir[fname] ELSE NoFile

\* the call that just returned: the operation, the plugin name it was given,
\* the version string it resolved, and its Result
Call(op, name, res, out) ==
    [op |-> op, name |-> name, res |-> res,
     ok |-> out.ok, why |-> out.why, dl |-> out.dl]

NoCall == [op |-> "none", name |-> <<>>, res |-> "", ok |-> TRUE, why |-> "", dl |-> "none"]


Cur == State(installed, saved, plugdir, backupdir)

\* the clock is read only when a file is written: a call that wrote nothing
\* leaves no trace of the time it ran at
Tick(st) == now' = IF st = Cur THEN now ELSE now + 1

Become(st) ==
    /\ installed' = st.installed
    /\ saved' = st.saved
    /\ plugdir' = st.plugdir
    /\ backupdir' = st.backupdir

Idle == stack = <<>>

\* the plugins of the dependency scenarios, all of one source registry
Ids == {"A", "B", "C", "D"}

Plugin(id) == Descriptor(id, <<id>>, "modrinth")

\* what the registry answers about a plugin:
\*   ok         everything, and its archive is a plain plugin jar
\*   noinfo     get_plugin_info finds no descriptor
\*   unresolved no version list
\*   download   the archive download fails
\*   invalid    the archive fails validation
Avail == {"ok", "noinfo", "nolist", "unresolved", "download", "invalid"}

NoDeps == [i \in Ids |-> <<>>]

\* required dependencies per plugin: a cycle, a diamond, a single dependency
Cycle == [NoDeps EXCEPT !["A"] = <<"B">>, !["B"] = <<"A">>]
Diamond == [NoDeps EXCEPT !["A"] = <<"B", "C">>, !["B"] = <<"D">>, !["C"] = <<"D">>]
Single == [NoDeps EXCEPT !["A"] = <<"D">>]
Graphs == {Cycle, Diamond, Single}

Root == "A"

Nodes(g) == {Root} \cup {i \in Ids : \E j \in Ids : \E k \in DOMAIN g[j] : g[j][k] = i}

Worlds ==
    {w \in [deps : Graphs, avail : [Ids -> Avail]] :
        \A i \in Ids \ Nodes(w.deps) : w.avail[i] = "ok"}

\* a registry without dependency metadata
NoWorld == [deps |-> NoDeps, avail |-> [i \in Ids |-> "ok"]]

\* per install chain: install_plugin calls and dependency-list fetches per
\* source id, the ids in the order their records were committed, and the
\* dependencies the root's pass reported as failed
NoTrace ==
    [attempts |-> [i \in Ids |-> 0], fetches |-> [i \in Ids |-> 0],
     commits |-> <<>>, failed |-> {}]

Init ==
    /\ installed = <<>>
    /\ saved = <<>>
    /\ plugdir = <<>>
    /\ backupdir = <<>>
    /\ now = 0
    /\ last = NoCall
    /\ world = NoWorld
    /\ stack = <<>>
    /\ trace = NoTrace
    /\ cache = <<>>

\* install_plugin(plugin.name, version, plugin=plugin) for a plugin whose
\* registry entry declares no dependencies
InstallPlugin ==
    \E plugin \in Descriptors, version_id \in Versions \cup {None},
       dl \in DownloadOutcomes : \E versions \in VersionLists(plugin) :
        LET r == resolve_version(plugin, versions, version_id, TRUE)
            out == IF r.url = NoUrl
                   THEN Outcome(Cur, FALSE, "unresolved", "none")
                   ELSE install_steps(Cur, plugin, r.url, r.version, dl, now)
        IN  /\ Idle /\ now < MaxOps
            /\ Become(out.st)
            /\ last' = Call("install", plugin.name, r.version, out)
            /\ Tick(out.st)
            /\ UNCHANGED <<world, cache, stack, trace>>

\* update_plugin(plugin_name)
UpdatePlugin ==
    \E plugin \in Descriptors, dl \in DownloadOutcomes \cup {"no_url"} :
      \E versions \in VersionLists(plugin) :
        \E out \in update_steps(Cur, plugin.name, versions, dl, now) :
            /\ Idle /\ now < MaxOps
            /\ Become(out.st)
            /\ last' = Call("update", plugin.name,
                            IF versions = <<>> THEN "" ELSE versions[1].version_number, out)
            /\ Tick(out.st)
            /\ UNCHANGED <<world, cache, stack, trace>>

\* uninstall_plugin(plugin_name)
UninstallPlugin ==
    \E plugin \in Descriptors :
        LET out == uninstall_steps(Cur, plugin.name, now)
        IN  /\ Idle /\ now < MaxOps
            /\ Become(out.st)
            /\ last' = Call("uninstall", plugin.name, "", out)
            /\ Tick(out.st)
            /\ UNCHANGED <<world, cache, stack, trace>>

\* install_from_file(file_path)
InstallFromFile ==
    \E src \in LocalFiles :
        LET out == install_from_file_steps(Cur, src, now)
        IN  /\ Idle /\ now < MaxOps
            /\ Become(out.st)
            /\ last' = Call("from_file", src.fname, "", out)
            /\ Tick(out.st)
            /\ UNCHANGED <<world, cache, stack, trace>>

\* get_installed_plugins()
GetInstalledPlugins ==
    LET out == reconcile_steps(Cur)
    IN  /\ Idle /\ now < MaxOps
        /\ Become(out.st)
        /\ last' = Call("list", <<>>, "", out)
        /\ Tick(out.st)
        /\ UNCHANGED <<world, cache, stack, trace>>

\* somebody deletes an archive from the plugin directory by hand
DeleteOutOfBand ==
    \E f \in DOMAIN plugdir :
        /\ Idle /\ now < MaxOps
        /\ plugdir' = Unlink(plugdir, f)
        /\ last' = [NoCall EXCEPT !.op = "deleted", !.name = f]
        /\ now' = now + 1
        /\ UNCHANGED <<installed, saved, backupdir, world, cache, stack, trace>>

Next ==
    \/ DeleteOutOfBand
    \/ InstallPlugin
    \/ UpdatePlugin
    \/ UninstallPlugin
    \/ InstallFromFile
    \/ GetInstalledPlugins

Spec == Init /\ [][Next]_vars

----------------------------------------------------------------------------
(* One install chain: install_plugin(root, auto_deps=True), step by step *)

\* an install_plugin call on the stack: the plugin, where the call stands,
\* and the loop state of its dependency pass
Frame(id) == [id |-> id, pc |-> "resolve", i |-> 1, failed |-> {}]

Top == stack[Len(stack)]

SetTop(f) == [stack EXCEPT ![Len(stack)] = f]

\* (mutant) a failed dependency pass aborts the install
proceed_only_if_deps_ok(dep_ok) == dep_ok

\* install_plugin: a failed dependency pass is logged, nothing else
proceed_after_deps(dep_ok) == TRUE

\* what the registry's answer makes of the download of a plugin
DownloadOf(id) ==
    CASE world.avail[id] = "download" -> "http_error"
      [] world.avail[id] = "invalid" -> "notzip"
      [] OTHER -> "genuine"

InitDeps ==
    /\ installed = <<>>
    /\ saved = <<>>
    /\ plugdir = <<>>
    /\ backupdir = <<>>
    /\ now = 0
    /\ last = NoCall
    /\ world \in Worlds
    /\ stack = <<>>
    /\ trace = NoTrace
    /\ cache = <<>>

\* a call of install_plugin returns: to the dependency loop that made it
\* (_install_dependencies, lines 958-965), or to the caller of the chain
Return(id, res, out) ==
    IF Len(stack) = 1
    THEN /\ stack' = <<>>
         /\ last' = Call("install", <<id>>, res, out)
    ELSE LET c == stack[Len(stack) - 1]
             c1 == [c EXCEPT !.pc = "loop", !.i = c.i + 1,
                             !.failed = IF out.ok THEN c.failed ELSE c.failed \cup {id}]
         IN  /\ stack' = [SubSeq(stack, 1, Len(stack) - 1) EXCEPT ![Len(stack) - 1] = c1]
             /\ last' = last

\* the caller starts install_plugin(root)
BeginChain ==
    /\ Idle /\ last.op = "none"
    /\ stack' = <<Frame(Root)>>
    /\ trace' = [trace EXCEPT !.attempts[Root] = @ + 1]
    /\ UNCHANGED <<installed, saved, plugdir, backupdir, now, last, world, cache>>

\* the call-depth limit is met inside a nested call: install_plugin's own
\* handler turns the error into a failed Result. Where along the chain the
\* limit is met depends on the frames beneath it: at the last depth it must
\* be, one call earlier it may be.
DepthExceeded ==
    /\ stack # <<>> /\ Top.pc = "resolve"
    /\ Len(stack) > 1 /\ Len(stack) >= MaxDepth - 1
    /\ Return(Top.id, "", Outcome(Cur, FALSE, "exception", "none"))
    /\ UNCHANGED <<installed, saved, plugdir, backupdir, now, world, cache, trace>>

\* step 2, _resolve_version
ResolveVersion ==
    /\ stack # <<>> /\ Top.pc = "resolve"
    /\ Len(stack) < MaxDepth
    /\ IF world.avail[Top.id] = "unresolved"
       THEN Return(Top.id, "", Outcome(Cur, FALSE, "unresolved", "none"))
       ELSE stack' = SetTop([Top EXCEPT !.pc = "deps"]) /\ last' = last
    /\ UNCHANGED <<installed, saved, plugdir, backupdir, now, world, cache, trace>>

\* step 3, _install_dependencies up to the loop: a fresh _resolved set per
\* call (install_plugin passes none), then the dependency list, which the
\* registry may fail to give (non-fatal, no dependency is installed)
FetchDependencies ==
    /\ stack # <<>> /\ Top.pc = "deps"
    /\ stack' = SetTop([Top EXCEPT
            !.pc = IF world.avail[Top.id] = "nolist" \/ world.deps[Top.id] = <<>>
                   THEN "finish" ELSE "loop"])
    /\ trace' = [trace EXCEPT !.fetches[Top.id] = @ + 1]
    /\ UNCHANGED <<installed, saved, plugdir, backupdir, now, last, world, cache>>

\* one turn of the loop over dep_names
NextDependency ==
    /\ stack # <<>> /\ Top.pc = "loop"
    /\ LET deps == world.deps[Top.id]
           dep == deps[Top.i]
       IN  IF Top.i > Len(deps)
           THEN stack' = SetTop([Top EXCEPT !.pc = "finish"]) /\ trace' = trace
           ELSE IF \E k \in DOMAIN installed : installed[k].source_id = dep
           THEN stack' = SetTop([Top EXCEPT !.i = @ + 1]) /\ trace' = trace
           ELSE IF world.avail[dep] = "noinfo"
           THEN /\ stack' = SetTop([Top EXCEPT !.i = @ + 1, !.failed = @ \cup {dep}])
                /\ trace' = trace
           ELSE /\ stack' = Append(SetTop([Top EXCEPT !.pc = "await"]), Frame(dep))
                /\ trace' = [trace EXCEPT !.attempts[dep] = @ + 1]
    /\ UNCHANGED <<installed, saved, plugdir, backupdir, now, last, world, cache>>

\* steps 4 to 10 of the call on top of the stack, and its return
FinishInstall ==
    /\ stack # <<>> /\ Top.pc = "finish"
    /\ LET plugin == Plugin(Top.id)
           r == resolve_version(plugin, <<VersionEntry(plugin, "1")>>, None, TRUE)
           out == IF proceed_after_deps(Top.failed = {})
                  THEN install_steps(Cur, plugin, r.url, r.version, DownloadOf(Top.id), now)
                  ELSE Outcome(Cur, FALSE, "dependencies", "none")
       IN  /\ Become(out.st)
           /\ Tick(out.st)
           /\ Return(Top.id, r.version, out)
           /\ trace' = [trace EXCEPT
                  !.commits = IF out.why = "installed" THEN Append(@, Top.id) ELSE @,
                  !.failed = IF Len(stack) = 1 THEN Top.failed ELSE @]
    /\ UNCHANGED <<world, cache>>

NextDeps ==
    \/ BeginChain
    \/ DepthExceeded
    \/ ResolveVersion
    \/ FetchDependencies
    \/ NextDependency
    \/ FinishInstall

SpecDeps == InitDeps /\ [][NextDeps]_vars

----------------------------------------------------------------------------
(* Properties *)

HasRecord(inst, name) == get_plugin_idx(inst, name) # 0

ContentAt(dir, fname) == FileAt(dir, fname).content

\* the step is a call of op that ended for the given reason
Ended(ops, whys) == last'.op \in ops /\ last'.why \in whys

\* the record the call found for its plugin name had its archive in place
HadWorkingInstall ==
    /\ HasRecord(installed, last'.name)
    /\ Exists(plugdir, RecordOf(installed, last'.name).filename)

\* the archive at the path of the record the call found is what it was
\* before the call, and so is the record
PreviousInstallIntact ==
    LET rec == RecordOf(installed, last'.name)
    IN  /\ Exists(plugdir', rec.filename)
        /\ ContentAt(plugdir', rec.filename) = ContentAt(plugdir, rec.filename)
        /\ RecordOf(installed', last'.name) = rec

\* C1: after an update_plugin whose downloaded archive fails validation, the
\* file at the record's path has the bytes it had before the update, the
\* record's version is unchanged and the Result is a failure, whatever
\* installs, updates, uninstalls and backups came before.
C1_FailedUpdateKeepsPreviousFile ==
    [][(Ended({"update"}, {"validation"}) /\ HadWorkingInstall)
          => (PreviousInstallIntact /\ ~last'.ok)]_vars

\* C2: when install_plugin runs over an existing record and the downloaded
\* archive fails validation, the previously installed archive is afterwards
\* present at the path the existing record names and the record is unchanged.
C2_FailedReinstallRestoresBackup ==
    [][(Ended({"install"}, {"validation"}) /\ HadWorkingInstall)
          => PreviousInstallIntact]_vars

\* C3: an update_plugin, or an install_plugin over an existing record, that
\* fails at the download step (also after some chunks were written) leaves
\* the previously installed archive intact at the record's path.
C3_FailedDownloadKeepsInstallation ==
    [][(Ended({"install", "update"}, {"download"}) /\ HadWorkingInstall)
          => PreviousInstallIntact]_vars

\* C4: install_plugin of plugin P resolving version V, right after a
\* successful install_plugin of P resolving V, succeeds without any download,
\* changes neither the plugin directory, the backup directory nor the
\* registry, and leaves exactly one record for P.
C4_SecondInstallIsNoOp ==
    [][(/\ last.op = "install" /\ last.ok
        /\ last'.op = "install" /\ last'.name = last.name /\ last'.res = last.res)
          => (/\ last'.ok /\ last'.dl = "none"
              /\ plugdir' = plugdir /\ backupdir' = backupdir
              /\ installed' = installed /\ saved' = saved
              /\ Cardinality({i \in DOMAIN installed' :
                     LowerStr(installed'[i].name) = LowerStr(last'.name)}) = 1)]_vars

\* the archives of the integrity claim: not a zip, zero bytes, a corrupt member
BrokenArchives == {"notzip", "empty", "badmember"}

\* C5: an archive that fails the integrity check is never registered: the
\* install_plugin, update_plugin or install_from_file that processed it
\* fails, leaves the registry as it was and leaves no such bytes behind in
\* the plugin directory.
C5_BrokenArchiveNeverRegistered ==
    [][(last'.op \in {"install", "update", "from_file"} /\ last'.dl \in BrokenArchives)
          => (/\ ~last'.ok
              /\ installed' = installed /\ saved' = saved
              /\ \A f \in DOMAIN plugdir' :
                     plugdir'[f].content.kind \in BrokenArchives
                        => (Exists(plugdir, f) /\ plugdir[f] = plugdir'[f]))]_vars

\* C6: with the dependency cycle A -> B -> A and nothing installed,
\* install_plugin(A, auto_deps=True) ends with a Result, and A and B are
\* each attempted at most once.
C6_CycleEachAttemptedOnce ==
    world.deps = Cycle =>
        /\ \A i \in {"A", "B"} : trace.attempts[i] <= 1
        /\ stack # <<>> => ENABLED NextDeps

\* C7: within one install chain over the diamond A -> B, A -> C, B -> D,
\* C -> D no source id is processed more than once: its dependency list is
\* fetched at most once and its install is attempted at most once, also
\* when its install failed the first time.
C7_NoIdProcessedTwice ==
    world.deps = Diamond =>
        \A i \in Ids : trace.attempts[i] <= 1 /\ trace.fetches[i] <= 1

DeclaredBy(id) == {world.deps[id][k] : k \in DOMAIN world.deps[id]}

Registered(inst, id) == \E k \in DOMAIN inst : inst[k].source_id = id

\* C8: a required dependency D that the registry lists for the root, that
\* had no record and is installable, has its record committed and persisted
\* before the root's record is committed.
C8_DependencyCommittedBeforeRoot ==
    \A d \in DeclaredBy(Root) :
        (/\ world.avail[Root] # "nolist" /\ world.avail[d] = "ok"
         /\ Registered(installed, Root))
            => (Registered(installed, d) /\ Registered(saved, d))

\* the root's own steps (resolve, download, validate) succeed
OwnStepsSucceed(id) == world.avail[id] \notin {"unresolved", "download", "invalid"}

ChainEnded == stack = <<>> /\ last.op = "install"

\* C9: whatever the dependency pass did, install_plugin(root) ends with the
\* Result of the root's own steps: success exactly when they succeed, and
\* then the root is registered with its archive in place.
C9_DependencyFailureNeverAborts ==
    ChainEnded =>
        /\ last.ok <=> OwnStepsSucceed(Root)
        /\ last.ok =>
              /\ Registered(installed, Root)
              /\ Exists(plugdir, RecordOf(installed, <<Root>>).filename)

\* the root's pass reported a failed dependency and the root is installed
C9_Witness == ChainEnded /\ last.ok /\ trace.failed # {}

\* C10: the registry never holds two records whose names are equal up to
\* letter case.
C10_OneRecordPerNameIgnoringCase ==
    \A i, j \in DOMAIN installed :
        i # j => LowerStr(installed[i].name) # LowerStr(installed[j].name)

\* the records of a table, as a set
Records(inst) == {inst[k] : k \in DOMAIN inst}

C12_UninstallRemovesRecord ==
    [][last'.op = "uninstall"
          => IF last'.ok
             THEN HadWorkingInstall =>
                    LET rec == RecordOf(installed, last'.name)
                    IN  /\ ~Exists(plugdir', rec.filename)
                        /\ \E b \in DOMAIN backupdir' :
                              backupdir'[b].content = ContentAt(plugdir, rec.filename)
                        /\ ~HasRecord(installed', last'.name)
                        /\ ~HasRecord(saved', last'.name)
             ELSE /\ installed' = installed /\ saved' = saved
                  /\ plugdir' = plugdir /\ backupdir' = backupdir]_vars

----------------------------------------------------------------------------
(* The response cache of the source adapters (_Cache) *)

\* highest reading of the wall clock, in hours
MaxClock == 3

\* number of adapter calls in one behaviour, an hour apart
MaxSearches == 2

\* ttl_seconds=3600, in hours
TtlHours == 1

Entry(ts, value) == [ts |-> ts, value |-> value]

Answer(store, hit, value) == [store |-> store, hit |-> hit, value |-> value]

\* (mutant) an expired entry is reported as a miss but stays in the store
cache_get_keep(store, key, t) ==
    IF key \notin DOMAIN store
    THEN Answer(store, FALSE, <<>>)
    ELSE IF t - store[key].ts > TtlHours
    THEN Answer(store, FALSE, <<>>)
    ELSE Answer(store, TRUE, store[key].value)

\* _Cache.get: None on a miss; an expired entry is deleted, then None
cache_get(store, key, t) ==
    IF key \notin DOMAIN store
    THEN Answer(store, FALSE, <<>>)
    ELSE IF t - store[key].ts > TtlHours
    THEN Answer(Unlink(store, key), FALSE, <<>>)
    ELSE Answer(store, TRUE, store[key].value)

\* _Cache.set
cache_set(store, key, value, t) == Put(store, key, Entry(t, value))

\* _Cache.clear
cache_clear(store) == <<>>

Keys == {"k1", "k2"}

Values == {<<"x">>, <<"y">>}

\* per key: the most recent set that no clear followed, and whether a get
\* has reported it expired since
NoSets == [k \in Keys |-> [set |-> FALSE, at |-> 0, value |-> <<>>, expired |-> FALSE]]

InitCache ==
    /\ installed = <<>>
    /\ saved = <<>>
    /\ plugdir = <<>>
    /\ backupdir = <<>>
    /\ now = 0
    /\ last = NoCall
    /\ world = NoWorld
    /\ stack = <<>>
    /\ trace = NoSets
    /\ cache = <<>>

CacheSet ==
    \E k \in Keys, v \in Values :
        /\ cache' = cache_set(cache, k, v, now)
        /\ trace' = [trace EXCEPT ![k] = [set |-> TRUE, at |-> now, value |-> v,
                                          expired |-> FALSE]]
        /\ last' = [op |-> "set", key |-> k, hit |-> FALSE, value |-> v]
        /\ UNCHANGED <<installed, saved, plugdir, backupdir, now, world, stack>>

CacheGet ==
    \E k \in Keys :
        LET g == cache_get(cache, k, now)
        IN  /\ cache' = g.store
            /\ last' = [op |-> "get", key |-> k, hit |-> g.hit, value |-> g.value]
            /\ trace' = [trace EXCEPT ![k].expired =
                            @ \/ (trace[k].set /\ ~g.hit)]
            /\ UNCHANGED <<installed, saved, plugdir, backupdir, now, world, stack>>

CacheClear ==
    /\ cache' = cache_clear(cache)
    /\ trace' = NoSets
    /\ last' = [op |-> "clear", key |-> "", hit |-> FALSE, value |-> <<>>]
    /\ UNCHANGED <<installed, saved, plugdir, backupdir, now, world, stack>>

\* time.time() is the wall clock: it moves on, and it can be set back
ClockMoves ==
    \E t \in 0..MaxClock :
        /\ t # now
        /\ now' = t
        /\ last' = [op |-> "clock", key |-> "", hit |-> FALSE, value |-> <<>>]
        /\ UNCHANGED <<installed, saved, plugdir, backupdir, world, stack,
                       trace, cache>>

NextCache ==
    \/ CacheSet
    \/ CacheGet
    \/ CacheClear
    \/ ClockMoves

SpecCache == InitCache /\ [][NextCache]_vars

\* C16: get(key) returns the value of the most recent set(key) exactly while
\* that set was not cleared, no more than the time-to-live has elapsed since
\* it on the clock, and no get has reported it expired; otherwise get
\* returns nothing. set overwrites and restarts the lifetime.
C16_CacheGetSetExpiry ==
    [][last'.op = "get"
          => LET s == trace[last'.key]
                 live == s.set /\ ~s.expired /\ now - s.at <= TtlHours
             IN  /\ last'.hit <=> live
                 /\ last'.hit => last'.value = s.value]_vars

\* a get that returned nothing for a key that was set again after a get
\* had found it live: the entry expired or was reported expired before
C16_Witness ==
    /\ last.op = "get" /\ ~last.hit
    /\ trace[last.key].set /\ trace[last.key].expired
    /\ now - trace[last.key].at <= TtlHours

----------------------------------------------------------------------------
(* The source adapters' search and the aggregate search (plugin_apis) *)

\* the adapters in the order search_plugins asks them
Adapters == <<"modrinth", "hangar", "spigotmc", "curseforge">>

SourceNames == {Adapters[i] : i \in DOMAIN Adapters}

\* _SERVER_SOURCE_MAP, with the default of .get for a type it does not list
SERVER_SOURCE_MAP(server_type) ==
    CASE server_type = "paper" -> <<"modrinth", "hangar", "spigotmc">>
      [] server_type = "spigot" -> <<"spigotmc", "modrinth">>
      [] server_type = "purpur" -> <<"hangar", "modrinth", "spigotmc">>
      [] server_type = "fabric" -> <<"modrinth", "curseforge">>
      [] server_type = "forge" -> <<"curseforge", "modrinth">>
      [] server_type = "quilt" -> <<"modrinth">>
      [] server_type = "vanilla" -> <<>>
      [] server_type = "velocity" -> <<"hangar", "modrinth">>
      [] server_type = "bungeecord" -> <<"spigotmc">>
      [] OTHER -> <<"modrinth">>

ServerTypes ==
    {"paper", "spigot", "purpur", "fabric", "forge", "quilt", "vanilla",
     "velocity", "bungeecord", "sponge"}

Listed(server_type) ==
    {SERVER_SOURCE_MAP(server_type)[i] : i \in DOMAIN SERVER_SOURCE_MAP(server_type)}

\* PluginSearchResult, the fields the search looks at
Hit(id, source, downloads) == [id |-> id, source |-> source, downloads |-> downloads]

\* what each registry lists for the query, in its native order
Popular ==
    [s \in SourceNames |->
        CASE s = "modrinth" -> <<Hit("a", s, 100), Hit("b", s, 500)>>
          [] s = "hangar" -> <<Hit("a", s, 50)>>
          [] s = "spigotmc" -> <<Hit("a", s, 500)>>
          [] OTHER -> <<Hit("a", s, 500), Hit("b", s, 50)>>]

Level == [s \in SourceNames |-> <<Hit("a", s, 500), Hit("b", s, 500)>>]

Sparse ==
    [s \in SourceNames |->
        IF s = "hangar" THEN <<>> ELSE <<Hit("a", s, 100)>>]

Catalogs == {Popular, Level, Sparse}

\* cache key of a search: only Modrinth's names the server type
SearchKey(s, server_type) ==
    IF s = "modrinth" THEN <<s, "search", server_type>> ELSE <<s, "search">>

Fetched(store, value, requested) ==
    [store |-> store, value |-> value, requested |-> requested]

\* (mutant) CurseForge is asked like any other registry, credential or not
adapter_search_unguarded(s, server_type, store, w, down, t) ==
    LET g == cache_get(store, SearchKey(s, server_type), t)
    IN  IF g.hit THEN Fetched(g.store, g.value, FALSE)
        ELSE IF s \in down THEN Fetched(g.store, <<>>, TRUE)
        ELSE Fetched(cache_set(g.store, SearchKey(s, server_type), w.catalog[s], t),
                     w.catalog[s], TRUE)

\* <Adapter>.search: without its credential CurseForge answers at once;
\* a cached list is returned as it is; a request that fails in any way
\* gives an empty list; a list that arrived is cached
adapter_search(s, server_type, store, w, down, t) ==
    IF s = "curseforge" /\ ~w.api_key
    THEN Fetched(store, <<>>, FALSE)
    ELSE LET g == cache_get(store, SearchKey(s, server_type), t)
         IN  IF g.hit THEN Fetched(g.store, g.value, FALSE)
             ELSE IF s \in down THEN Fetched(g.store, <<>>, TRUE)
             ELSE Fetched(cache_set(g.store, SearchKey(s, server_type), w.catalog[s], t),
                          w.catalog[s], TRUE)

\* list.sort(key=downloads, reverse=True) keeps equal keys in their order:
\* an element goes behind every element that is not smaller
insert_by_downloads(sorted, x) ==
    LET k == Cardinality({j \in DOMAIN sorted : sorted[j].downloads >= x.downloads})
    IN  SubSeq(sorted, 1, k) \o <<x>> \o SubSeq(sorted, k + 1, Len(sorted))

RECURSIVE sort_by_downloads(_)
sort_by_downloads(all) ==
    IF all = <<>> THEN <<>>
    ELSE insert_by_downloads(sort_by_downloads(SubSeq(all, 1, Len(all) - 1)),
                             all[Len(all)])

Gathered(store, all, got, requests) ==
    [store |-> store, all |-> all, got |-> got, requests |-> requests]

\* the adapters that search_plugins asks, from the i-th on: the if-chain
\* over modrinth, hangar, spigotmc, curseforge
RECURSIVE gather(_, _, _, _, _, _)
gather(i, server_type, acc, w, down, t) ==
    IF i > Len(Adapters) THEN acc
    ELSE IF Adapters[i] \notin Listed(server_type)
    THEN gather(i + 1, server_type, acc, w, down, t)
    ELSE LET r == adapter_search(Adapters[i], server_type, acc.store, w, down, t)
         IN  gather(i + 1, server_type,
                    Gathered(r.store, acc.all \o r.value,
                             [acc.got EXCEPT ![Adapters[i]] = r.value],
                             IF r.requested THEN acc.requests \cup {Adapters[i]}
                             ELSE acc.requests),
                    w, down, t)

\* (mutant) a request that failed aborts the aggregate
search_plugins_abort(server_type, store, w, down, t) ==
    LET g == gather(1, server_type,
                    Gathered(store, <<>>, [s \in SourceNames |-> <<>>], {}), w, down, t)
    IN  [store |-> g.store, got |-> g.got, requests |-> g.requests,
         result |-> IF g.requests \cap down # {} THEN <<>> ELSE sort_by_downloads(g.all)]

\* plugin_apis.search_plugins
search_plugins(server_type, store, w, down, t) ==
    LET g == gather(1, server_type,
                    Gathered(store, <<>>, [s \in SourceNames |-> <<>>], {}), w, down, t)
    IN  [store |-> g.store, got |-> g.got, requests |-> g.requests,
         result |-> sort_by_downloads(g.all)]

\* the other operations of the CurseForge adapter
CurseForgeOps == {"get_plugin_info", "get_versions", "get_download_url", "get_dependencies"}

\* what the CurseForge registry holds for the mod
CurseForgeData(op) ==
    CASE op = "get_plugin_info" -> <<"info">>
      [] op = "get_versions" -> <<"file2", "file1">>
      [] op = "get_download_url" -> <<"url">>
      [] OTHER -> <<"dep">>

\* get_dependencies reads the version list; get_download_url has no cache
CurseForgeKey(op) ==
    IF op = "get_plugin_info" THEN <<"curseforge", "info">> ELSE <<"curseforge", "versions">>

\* CurseForgeAPI.get_plugin_info / get_versions / get_download_url /
\* get_dependencies: None or [] without the credential, before anything else
curseforge_call(op, store, w, down, t) ==
    IF ~w.api_key
    THEN Fetched(store, <<>>, FALSE)
    ELSE IF op = "get_download_url"
    THEN Fetched(store, IF "curseforge" \in down THEN <<>> ELSE CurseForgeData(op), TRUE)
    ELSE LET g == cache_get(store, CurseForgeKey(op), t)
         IN  IF g.hit THEN Fetched(g.store, CurseForgeData(op), FALSE)
             ELSE IF "curseforge" \in down THEN Fetched(g.store, <<>>, TRUE)
             ELSE Fetched(cache_set(g.store, CurseForgeKey(op), <<"cached">>, t),
                          CurseForgeData(op), TRUE)

\* the registries and the environment of the adapters
SearchWorlds == [catalog : Catalogs, api_key : BOOLEAN]

Reply(op, server_type, down, got, requests, result) ==
    [op |-> op, server_type |-> server_type, down |-> down, got |-> got,
     requests |-> requests, result |-> result]

InitSearch ==
    /\ installed = <<>>
    /\ saved = <<>>
    /\ plugdir = <<>>
    /\ backupdir = <<>>
    /\ now = 0
    /\ last = NoCall
    /\ world \in SearchWorlds
    /\ stack = <<>>
    /\ trace = NoTrace
    /\ cache = <<>>

\* search_plugins(query, server_type, ...), an hour after the call before;
\* at most one registry is out of reach during the call
SearchPlugins ==
    \E server_type \in ServerTypes :
      \E down \in {{}} \cup {{s} : s \in Listed(server_type)} :
        LET r == search_plugins(server_type, cache, world, down, now)
        IN  /\ now < MaxSearches
            /\ cache' = r.store
            /\ last' = Reply("search", server_type, down, r.got, r.requests, r.result)
            /\ now' = now + 1
            /\ UNCHANGED <<installed, saved, plugdir, backupdir, world, stack, trace>>

\* one of the other operations of the CurseForge adapter
CurseForgeCall ==
    \E op \in CurseForgeOps, down \in {{}, {"curseforge"}} :
        LET r == curseforge_call(op, cache, world, down, now)
        IN  /\ now < MaxSearches
            /\ cache' = r.store
            /\ last' = Reply(op, "", down,
                             [s \in SourceNames |-> IF s = "curseforge" THEN r.value ELSE <<>>],
                             IF r.requested THEN {"curseforge"} ELSE {}, r.value)
            /\ now' = now + 1
            /\ UNCHANGED <<installed, saved, plugdir, backupdir, world, stack, trace>>

NextSearch ==
    \/ SearchPlugins
    \/ CurseForgeCall

SpecSearch == InitSearch /\ [][NextSearch]_vars

\* the lists the adapters returned, concatenated in the given order
RECURSIVE concat_in(_, _)
concat_in(order, got) ==
    IF order = <<>> THEN <<>>
    ELSE got[Head(order)] \o concat_in(Tail(order), got)

Occurrences(seq, x) == Cardinality({k \in DOMAIN seq : seq[k] = x})

Position(seq, x) == CHOOSE k \in DOMAIN seq : seq[k] = x

\* every element of all is in res exactly once, and nothing else is
SameResults(res, all) ==
    /\ Len(res) = Len(all)
    /\ \A k \in DOMAIN all : Occurrences(res, all[k]) = 1

NonIncreasing(res) ==
    \A i, j \in DOMAIN res : i < j => res[i].downloads >= res[j].downloads

\* C13: the aggregate search returns every result of every invoked adapter
\* exactly once, in non-increasing order of downloads, and results with
\* equal downloads in the order of the concatenation that follows the
\* platform table's order of adapters for the server type.
C13_StableSortInTableOrder ==
    last.op = "search" =>
        LET all == concat_in(SERVER_SOURCE_MAP(last.server_type), last.got)
        IN  /\ SameResults(last.result, all)
            /\ NonIncreasing(last.result)
            /\ \A i, j \in DOMAIN last.result :
                  (i < j /\ last.result[i].downloads = last.result[j].downloads)
                     => Position(all, last.result[i]) < Position(all, last.result[j])

\* what an adapter that is asked and reachable returns for the query
Reachable(s) == (s = "curseforge" => world.api_key) /\ s \notin last.down

\* C14: an adapter whose request fails returns an empty list, and the
\* aggregate search still returns the results of every other applicable
\* adapter, each exactly once, in non-increasing order of downloads.
C14_AdapterFailureSwallowed ==
    last.op = "search" =>
        /\ \A s \in last.down \cap last.requests : last.got[s] = <<>>
        /\ \A s \in Listed(last.server_type) :
              Reachable(s) => last.got[s] = world.catalog[s]
        /\ SameResults(last.result, concat_in(Adapters, last.got))
        /\ NonIncreasing(last.result)

\* a search during which one registry failed and the others' results came back
C14_Witness ==
    /\ last.op = "search"
    /\ last.down # {} /\ last.down \subseteq last.requests
    /\ last.result # <<>>

\* C15: without the CurseForge credential every operation of that adapter
\* returns its empty value without a request and without touching the
\* cache, and the other adapters of a search answer as they would anyway.
C15_NoCredentialNoRequest ==
    (~world.api_key /\ last.op \in CurseForgeOps \cup {"search"}) =>
        /\ last.got["curseforge"] = <<>>
        /\ "curseforge" \notin last.requests
        /\ \A k \in DOMAIN cache : k[1] # "curseforge"
        /\ last.op = "search" =>
              \A s \in Listed(last.server_type) \ {"curseforge"} :
                  s \notin last.down => last.got[s] = world.catalog[s]
        /\ last.op # "search" => last.result = <<>>

\* a search on a platform that lists CurseForge, without the credential,
\* that brought the other adapter's results
C15_Witness ==
    /\ ~world.api_key /\ last.op = "search"
    /\ "curseforge" \in Listed(last.server_type)
    /\ last.result # <<>>

----------------------------------------------------------------------------
(* PluginValidator.validate on its own *)

PluginTypes == {"bukkit", "bungeecord", "velocity", "fabric", "forge"}

\* the platforms of compatibility_map, and one it does not list
ValidatorServers ==
    {"paper", "spigot", "purpur", "fabric", "forge", "velocity", "bungeecord", "quilt"}

ApiVersions ==
    {NoApi, ApiVersion("text", 1, 19), ApiVersion("text", 1, 21),
     ApiVersion("number", 1, 21), ApiVersion("words", 0, 0)}

Depends == {<<>>, << <<"B">> >>}

\* jars with a manifest, sound or with a corrupt member; only plugin.yml and
\* bungee.yml carry an api-version and a depend list
ManifestJars ==
    {Jar(kind, mname, "1", plugin_type, api_version, depend) :
        kind \in {"good", "badmember"}, mname \in {<<"A">>},
        plugin_type \in {"bukkit", "bungeecord"},
        api_version \in ApiVersions, depend \in Depends}
    \cup {Jar(kind, <<"A">>, "1", plugin_type, NoApi, <<>>) :
            kind \in {"good", "badmember"}, plugin_type \in PluginTypes}

Jars ==
    ManifestJars \cup {Bytes("notzip", <<"A">>, "1"), Bytes("nomanifest", <<"A">>, "1")}

\* plugin directories the validator looks into: empty, one plugin A, and
\* plugins A and B
ValidatorDirs ==
    {<<>>,
     (<<"A", ".jar">> :> File(Bytes("good", <<"A">>, "1"), 0)),
     (<<"A", ".jar">> :> File(Bytes("good", <<"A">>, "1"), 0))
        @@ (<<"B", ".jar">> :> File(Bytes("good", <<"B">>, "1"), 0))}

\* the path of a jar that is not in the plugin directory
Outside == <<"N", ".jar">>

InitValidate ==
    /\ installed = <<>>
    /\ saved = <<>>
    /\ plugdir \in ValidatorDirs
    /\ backupdir = <<>>
    /\ now = 0
    /\ last = NoCall
    /\ world = NoWorld
    /\ stack = <<>>
    /\ trace = NoTrace
    /\ cache = <<>>

Validated(server_type, fname, jar, result) ==
    [op |-> "validate", server_type |-> server_type, fname |-> fname, jar |-> jar,
     raised |-> result.raised, is_valid |-> result.is_valid, issues |-> result.issues]

\* PluginValidator(server_type, mc_version, plugins_dir).validate(jar_path)
\* for a jar outside the plugin directory
ValidateOutside ==
    \E server_type \in ValidatorServers, jar \in Jars :
        /\ last' = Validated(server_type, Outside, jar,
                             validate(Outside, jar, server_type, ServerMc, plugdir))
        /\ UNCHANGED <<installed, saved, plugdir, backupdir, now, world, stack, trace, cache>>

\* ... and for a jar of the plugin directory
ValidateInstalled ==
    \E server_type \in ValidatorServers, fname \in DOMAIN plugdir :
        /\ last' = Validated(server_type, fname, plugdir[fname].content,
                             validate(fname, plugdir[fname].content, server_type,
                                      ServerMc, plugdir))
        /\ UNCHANGED <<installed, saved, plugdir, backupdir, now, world, stack, trace, cache>>

NextValidate ==
    \/ ValidateOutside
    \/ ValidateInstalled

SpecValidate == InitValidate /\ [][NextValidate]_vars

HasIssue(issues, sev, fld) ==
    \E i \in DOMAIN issues : issues[i].severity = sev /\ issues[i].field = fld

HasError(issues) == \E i \in DOMAIN issues : issues[i].severity = "error"

Returned == last.op = "validate" /\ ~last.raised

\* C17: for every ValidationResult that validate returns, is_valid is false
\* if and only if the issue list holds at least one issue of severity error.
C17_ValidIffNoError ==
    Returned => (~last.is_valid <=> HasError(last.issues))

\* a result with a warning and an error, not valid
C17_Witness ==
    /\ Returned /\ ~last.is_valid
    /\ HasIssue(last.issues, "warning", "duplicate")
    /\ HasIssue(last.issues, "error", "plugin_type")

\* the manifest of the validated jar could be read
Readable == last.op = "validate" /\ last.jar.kind \in {"good", "badmember"}

\* another jar of the plugin directory declares the same manifest name
DuplicatePresent ==
    \E f \in DOMAIN plugdir :
        f # last.fname /\ plugdir[f].content.mname = last.jar.mname

\* the manifest declares an api-version above the server's (major, minor)
ApiExceeds ==
    /\ last.jar.api_version.form \in {"text", "number"}
    /\ NewerThan(last.jar.api_version, ServerMc)

\* a declared hard dependency is not in the plugin directory
DependencyAbsent ==
    \E i \in DOMAIN last.jar.depend :
        \A f \in DOMAIN plugdir : plugdir[f].content.mname # last.jar.depend[i]

AllowedTypes ==
    [paper |-> {"bukkit"}, spigot |-> {"bukkit"}, purpur |-> {"bukkit"},
     fabric |-> {"fabric"}, forge |-> {"forge"}, velocity |-> {"velocity"},
     bungeecord |-> {"bungeecord"}]

\* C19: on every recognized platform a returned result carries a platform
\* error (and is not valid) exactly when the manifest's plugin_type is not
\* in the platform's allowed set.
C19_PlatformErrorIffTypeNotAllowed ==
    (Returned /\ Readable /\ last.server_type \in DOMAIN AllowedTypes) =>
        LET mismatch == last.jar.plugin_type \notin AllowedTypes[last.server_type]
        IN  /\ HasIssue(last.issues, "error", "plugin_type") <=> mismatch
            /\ mismatch => ~last.is_valid

\* a Velocity plugin validated for a BungeeCord proxy: a platform error
C19_Witness ==
    /\ Returned /\ last.server_type = "bungeecord"
    /\ last.jar.plugin_type = "velocity"
    /\ HasIssue(last.issues, "error", "plugin_type")

----------------------------------------------------------------------------
(* PluginManager._resolve_version on its own *)

\* the plugin whose version is resolved, per owning adapter, and one from a
\* source with no adapter
Owned(source) == Descriptor("p1", <<"V">>, source)

ResolveSources == SourceNames \cup {"manual"}

\* the PluginVersion that the adapter's get_versions builds for release v;
\* hosted: CurseForge lists a downloadUrl for the file
AdapterEntry(plugin, v, hosted) ==
    CASE plugin.source = "hangar" ->
            [id |-> v, version_number |-> v, download_url |-> NoUrl]
      [] plugin.source = "spigotmc" ->
            [id |-> "id" \o v, version_number |-> v,
             download_url |-> <<"versions", "id" \o v, "download">>]
      [] plugin.source = "curseforge" ->
            [id |-> "id" \o v, version_number |-> v,
             download_url |-> IF hosted THEN plugin.name \o <<"-", v, ".jar">> ELSE NoUrl]
      [] OTHER -> VersionEntry(plugin, v)

\* what get_versions may return, newest first
AdapterLists(plugin, hosted) ==
    {<<>>,
     <<AdapterEntry(plugin, "1", hosted)>>,
     <<AdapterEntry(plugin, "2", hosted), AdapterEntry(plugin, "1", hosted)>>,
     <<AdapterEntry(plugin, "3", hosted), AdapterEntry(plugin, "2", hosted),
       AdapterEntry(plugin, "1", hosted)>>}

\* version_id: none, a display version, an id, or one that nothing has
VersionIds == {None, "1", "2", "id1", "id2", "9"}

ResolveWorlds ==
    {[source |-> source, versions |-> versions, hosted |-> hosted, answers |-> answers] :
        source \in ResolveSources, hosted \in BOOLEAN, answers \in BOOLEAN,
        versions \in UNION {AdapterLists(Owned(src), h) :
                                src \in ResolveSources, h \in BOOLEAN}}

InitResolve ==
    /\ installed = <<>>
    /\ saved = <<>>
    /\ plugdir = <<>>
    /\ backupdir = <<>>
    /\ now = 0
    /\ last = NoCall
    /\ world \in {w \in ResolveWorlds :
                    w.versions \in AdapterLists(Owned(w.source), w.hosted)}
    /\ stack = <<>>
    /\ trace = NoTrace
    /\ cache = <<>>

\* _resolve_version(plugin, session, version_id)
ResolveVersionCall ==
    \E version_id \in VersionIds :
        LET r == resolve_version(Owned(world.source), world.versions, version_id,
                                 world.answers)
        IN  /\ last' = [op |-> "resolve", version_id |-> version_id,
                        url |-> r.url, version |-> r.version]
            /\ UNCHANGED <<installed, saved, plugdir, backupdir, now, world, stack,
                           trace, cache>>

\* how a request to a registry ends: answered with success, answered with
\* another status, or not answered in time
NetOutcomes == {"ok", "status", "timeout"}

\* <Adapter>.get_download_url(id, version_id, session)
get_download_url(s, version_id, net) ==
    CASE s = "modrinth" ->
            IF net = "ok" THEN <<"modrinth", version_id, "file">> ELSE NoUrl
      [] s = "hangar" -> hangar_get_download_url(version_id)
      [] s = "spigotmc" -> spigot_get_download_url(version_id)
      [] OTHER -> curseforge_get_download_url(version_id, net = "ok")

\* one call of the owning adapter's get_download_url
GetDownloadUrl ==
    \E version_id \in VersionIds \ {None}, net \in NetOutcomes :
        /\ world.source \in SourceNames
        /\ last' = [op |-> "get_download_url", version_id |-> version_id, net |-> net,
                    url |-> get_download_url(world.source, version_id, net)]
        /\ UNCHANGED <<installed, saved, plugdir, backupdir, now, world, stack,
                       trace, cache>>

NextResolve ==
    \/ ResolveVersionCall
    \/ GetDownloadUrl

SpecResolve == InitResolve /\ [][NextResolve]_vars

\* the download URL of an entry of the version list: the one listed, or
\* the one the adapter resolves for that entry's id
UrlOf(e) ==
    CASE e.download_url # NoUrl -> e.download_url
      [] world.source = "hangar" -> hangar_get_download_url(e.id)
      [] OTHER -> curseforge_get_download_url(e.id, world.answers)

Selected(e) == last.version = e.version_number /\ last.url = UrlOf(e)

\* C20: with an explicit identifier that is the id or the display version
\* of an entry of the owning adapter's version list, the resolver returns
\* that entry's version string and download URL, for each of the four
\* adapters; with no identifier it returns the first entry's.
C20_ResolverSelectsMatchingEntry ==
    (last.op = "resolve" /\ world.source \in SourceNames /\ world.versions # <<>>) =>
        LET versions == world.versions
            hits == {i \in DOMAIN versions :
                        \/ versions[i].id = last.version_id
                        \/ versions[i].version_number = last.version_id}
        IN  /\ last.version_id = None => Selected(versions[1])
            /\ hits # {} => \E i \in hits : Selected(versions[i])

\* C21: when the owning adapter yields no version list, or an explicit
\* identifier matches no entry of the list, the resolver returns no URL
\* and an empty version string, for each of the four adapters.
C21_NoListOrNoMatchResolvesEmpty ==
    (last.op = "resolve" /\ world.source \in SourceNames) =>
        LET versions == world.versions
            hits == {i \in DOMAIN versions :
                        \/ versions[i].id = last.version_id
                        \/ versions[i].version_number = last.version_id}
        IN  (versions = <<>> \/ (last.version_id # None /\ hits = {})) =>
                (last.url = NoUrl /\ last.version = "")

\* C22: a transaction whose version or download URL cannot be resolved
\* fails with no filesystem change: when install_plugin or update_plugin
\* returns for that reason, the plugin directory, the backup directory and
\* the persisted registry are as they were before the call.
C22_UnresolvedChangesNothing ==
    [][(/\ last'.op \in {"install", "update"}
        /\ last'.why \in {"unresolved", "no_versions", "no_url"})
       => (/\ ~last'.ok
           /\ plugdir' = plugdir
           /\ backupdir' = backupdir
           /\ saved' = saved)]_vars

\* the version string a manifest declares, "" when it declares none
Declared(b) ==
    CASE b.kind = "ownver" -> "m" \o b.ver
      [] b.kind = "nover" -> ""
      [] OTHER -> b.ver

\* C23: after a successful install_plugin or update_plugin the version in
\* the plugin's record is the one the installed archive's manifest
\* declares, and the registry-resolved version string only when the
\* manifest declares none. The record is the one the call wrote: the one
\* install_plugin appended, the one update_plugin found.
C23_RecordVersionFromManifest ==
    (last.op \in {"install", "update"} /\ last.ok /\ last.why \in {"installed", "updated"}) =>
        LET rec == IF last.op = "install"
                   THEN installed[Len(installed)]
                   ELSE RecordOf(installed, last.name)
            b == ContentAt(plugdir, rec.filename)
        IN  rec.version = IF Declared(b) # "" THEN Declared(b) ELSE last.res

\* the files of the plugin directory that the step wrote, replaced or removed
Touched ==
    {f \in DOMAIN plugdir \cup DOMAIN plugdir' : FileAt(plugdir, f) # FileAt(plugdir', f)}

\* C26: in an install or update transaction nothing but the downloaded
\* archive's final path is written before validation passes: a
\* transaction that ends at the download or at validation has written no
\* registry, nothing to the backup directory and no other file.
C26_OnlyDownloadBeforeValidation ==
    [][Ended({"install", "update"}, {"download", "validation"})
       => (/\ saved' = saved
           /\ backupdir' = backupdir
           /\ Cardinality(Touched) <= 1)]_vars

\* C27: an archive that opens as a zip but has a corrupt member fails
\* validation: the result lists an error and is not valid.
C27_CorruptMemberIsError ==
    (Returned /\ last.jar.kind = "badmember") =>
        (HasError(last.issues) /\ ~last.is_valid)

\* C28: on a platform that is not a recognized one the platform check is
\* disabled: validate adds no platform error whatever the plugin_type, and
\* an archive without other errors stays valid.
C28_UnrecognizedPlatformSkipsCheck ==
    (Returned /\ Readable /\ last.server_type \notin DOMAIN AllowedTypes) =>
        /\ ~HasIssue(last.issues, "error", "plugin_type")
        /\ last.is_valid

----------------------------------------------------------------------------
(* The adapters' search, its cache key and the request it sends *)

Queries == {"q1", "q2"}
GameVersions == {None, "1.20"}
PlatformHints == {"fabric", "forge"}
Limits == {"5", "20"}

\* cache_key of <Adapter>.search, the fields of the f-string
search_cache_key(s, query, mc_version, server_type, limit) ==
    CASE s = "modrinth" -> <<"modrinth", "search", query, mc_version, server_type, limit>>
      [] s = "hangar" -> <<"hangar", "search", query, mc_version, limit>>
      [] s = "spigotmc" -> <<"spigot", "search", query, limit>>
      [] OTHER -> <<"curseforge", "search", query, mc_version, limit>>

\* ModrinthAPI._build_facets: the loader category of a server type
Loader(server_type) ==
    IF server_type \in {"paper", "spigot", "purpur"} THEN "paper" ELSE server_type

\* what <Adapter>.search sends to its registry: the parameters of the GET
search_request(s, query, mc_version, server_type, limit) ==
    CASE s = "modrinth" -> <<s, query, limit, mc_version, Loader(server_type)>>
      [] s = "hangar" -> <<s, query, limit, mc_version>>
      [] s = "spigotmc" -> <<s, query, limit>>
      [] OTHER -> <<s, query, limit, mc_version,
                    IF server_type \in {"forge", "fabric", "quilt"}
                    THEN server_type ELSE None>>

InitKeys ==
    /\ installed = <<>>
    /\ saved = <<>>
    /\ plugdir = <<>>
    /\ backupdir = <<>>
    /\ now = 0
    /\ last = NoCall
    /\ world = NoWorld
    /\ stack = <<>>
    /\ trace = NoTrace
    /\ cache = <<>>

\* <Adapter>.search(query, limit=, mc_version=, server_type=) with the
\* credential configured and the registry answering: a registry's answer
\* is told apart by the request it answers
AdapterSearch ==
    \E s \in SourceNames, query \in Queries, mc_version \in GameVersions,
       server_type \in PlatformHints, limit \in Limits :
        LET key == search_cache_key(s, query, mc_version, server_type, limit)
            request == search_request(s, query, mc_version, server_type, limit)
            g == cache_get(cache, key, now)
        IN  /\ now < MaxSearches
            /\ cache' = IF g.hit THEN g.store ELSE cache_set(g.store, key, request, now)
            /\ last' = [op |-> "adapter_search", request |-> request, hit |-> g.hit,
                        value |-> IF g.hit THEN g.value ELSE request]
            /\ now' = now + 1
            /\ UNCHANGED <<installed, saved, plugdir, backupdir, world, stack, trace>>

NextKeys == AdapterSearch

SpecKeys == InitKeys /\ [][NextKeys]_vars

\* C29: a cached result is returned only to a call of the same adapter and
\* operation with the same request-affecting parameters: what a search
\* gets from the cache is the answer to the very request it would send.
C29_CacheEntryPerRequest ==
    (last.op = "adapter_search" /\ last.hit) => last.value = last.request

\* C30: every adapter's get_download_url returns None when its network
\* call times out, fails or is answered with a non-success status; it
\* returns a URL only when the registry answered successfully.
C30_DownloadUrlNoneOnFailure ==
    (last.op = "get_download_url" /\ last.net # "ok") => last.url = NoUrl

----------------------------------------------------------------------------
(* The manager's operations when a write to the filesystem fails *)

\* the write that fails during a call, if any: the archive's (open or
\* copy2 into the plugin directory), the registry file's, the unlink of
\* the archive, the copy2 into the backup directory
Faults == {"none", "archive", "registry", "unlink", "backup"}

\* how a call ends: the state it leaves, Result.success, whether an
\* exception left the call instead of a Result, whether the Result carries
\* the exception's message, and whether the failing write was attempted
Report(st, ok, raised, detail, struck) ==
    [st |-> st, ok |-> ok, raised |-> raised, detail |-> detail, struck |-> struck]

\* the call that would end as out on a sound filesystem, under the fault:
\*   _save_registry logs an OSError and returns;
\*   _download_file catches it and returns False (out is that of a failed
\*     download then);
\*   install_from_file returns Result.fail(str(exc)) from the copy;
\*   uninstall_plugin has no handler around jar_path.unlink();
\*   _backup_plugin logs the error of its copy and returns None, which no
\*     caller looks at (an update that goes on to restore is left out)
under_fault(op, st, out, fault) ==
    CASE fault = "registry" /\ out.why \in {"installed", "updated", "removed"} ->
            Report(State(out.st.installed, st.saved, out.st.plugdir, out.st.backupdir),
                   TRUE, FALSE, "none", TRUE)
      [] fault = "archive" /\ op \in {"install", "update"} /\ out.why = "download" ->
            Report(out.st, FALSE, FALSE, "generic", TRUE)
      [] fault = "archive" /\ op = "from_file" /\ out.why = "installed" ->
            Report(State(st.installed, st.saved, st.plugdir, out.st.backupdir),
                   FALSE, FALSE, "underlying", TRUE)
      [] fault = "unlink" /\ op = "uninstall" /\ out.why = "removed"
            /\ out.st.plugdir # st.plugdir ->
            Report(State(st.installed, st.saved, st.plugdir, out.st.backupdir),
                   FALSE, TRUE, "none", TRUE)
      [] fault = "backup" /\ out.st.backupdir # st.backupdir
            /\ ~(op = "update" /\ out.why = "validation") ->
            Report(State(out.st.installed, out.st.saved, out.st.plugdir, st.backupdir),
                   out.ok, FALSE, "none", TRUE)
      [] OTHER -> Report(out.st, out.ok, FALSE, "none", FALSE)

\* the step of a call of op under the fault
Faulty(op, name, res, out, fault) ==
    LET r == under_fault(op, Cur, out, fault)
    IN  /\ Idle /\ now < MaxOps
        /\ Become(r.st)
        /\ last' = [op |-> op, name |-> name, res |-> res, ok |-> r.ok, why |-> out.why,
                    dl |-> out.dl, fault |-> fault, raised |-> r.raised,
                    detail |-> r.detail, struck |-> r.struck]
        /\ Tick(r.st)
        /\ UNCHANGED <<world, cache, stack, trace>>

\* the download as the fault lets it end
DownloadUnder(fault, dl) == IF fault = "archive" THEN "http_error" ELSE dl

\* the downloads of these scenarios: refused, or the release itself
DiskDownloads == {"http_error", "genuine"}

InstallPluginOnDisk ==
    \E plugin \in Descriptors, version_id \in Versions \cup {None},
       dl \in DiskDownloads, fault \in Faults : \E versions \in VersionLists(plugin) :
        LET r == resolve_version(plugin, versions, version_id, TRUE)
            out == IF r.url = NoUrl
                   THEN Outcome(Cur, FALSE, "unresolved", "none")
                   ELSE install_steps(Cur, plugin, r.url, r.version,
                                      DownloadUnder(fault, dl), now)
        IN  Faulty("install", plugin.name, r.version, out, fault)

UpdatePluginOnDisk ==
    \E plugin \in Descriptors, dl \in DiskDownloads, fault \in Faults :
      \E versions \in VersionLists(plugin) :
        \E out \in update_steps(Cur, plugin.name, versions, DownloadUnder(fault, dl), now) :
            Faulty("update", plugin.name,
                   IF versions = <<>> THEN "" ELSE versions[1].version_number, out, fault)

UninstallPluginOnDisk ==
    \E plugin \in Descriptors, fault \in Faults :
        Faulty("uninstall", plugin.name, "", uninstall_steps(Cur, plugin.name, now), fault)

InstallFromFileOnDisk ==
    \E src \in LocalFiles, fault \in Faults :
        Faulty("from_file", src.fname, "", install_from_file_steps(Cur, src, now), fault)

NextDisk ==
    \/ InstallPluginOnDisk
    \/ UpdatePluginOnDisk
    \/ UninstallPluginOnDisk
    \/ InstallFromFileOnDisk

SpecDisk == Init /\ [][NextDisk]_vars

\* C24: whenever install_plugin, install_from_file, update_plugin or
\* uninstall_plugin returns success after changing the table, the plugins
\* array of the persisted registry equals the table record for record (and
\* so plugin_count, its length, the number of records).
C24_SuccessMeansPersisted ==
    [][(/\ last'.op \in {"install", "from_file", "update", "uninstall"}
        /\ last'.ok
        /\ installed' # installed)
       => saved' = installed']_vars

\* C25: a filesystem write that fails during install_plugin,
\* update_plugin, install_from_file or uninstall_plugin comes back as a
\* Result with success false that carries the underlying message: the call
\* does not raise and does not report success.
C25_WriteFailureIsFailedResult ==
    (/\ last.op \in {"install", "from_file", "update", "uninstall"}
     /\ last.struck /\ last.fault \in {"archive", "registry", "unlink"}) =>
        (~last.raised /\ ~last.ok /\ last.detail = "underlying")

\* C31: archive errors never surface as exceptions: whatever the archive
\* (not a zip, no manifest, a corrupt member, an api-version that is a
\* number or no version at all), validate returns a ValidationResult.
C31_ValidateNeverRaises ==
    last.op = "validate" => ~last.raised

----------------------------------------------------------------------------
(* extract_plugin_meta: which manifest of an archive is read *)

\* entries an archive may hold
EntryNames ==
    {"plugin.yml", "bungee.yml", "velocity-plugin.json", "fabric.mod.json",
     "META-INF/mods.toml", "mods.toml", "A.class"}

\* name.endswith("mods.toml")
EndsWithModsToml(name) == name \in {"META-INF/mods.toml", "mods.toml"}

\* (mutant) fabric.mod.json is looked for before velocity-plugin.json
manifest_type_fabric_first(names, garbled) ==
    IF "plugin.yml" \in names THEN "bukkit"
    ELSE IF "bungee.yml" \in names THEN "bungeecord"
    ELSE IF "fabric.mod.json" \in names THEN (IF garbled THEN "none" ELSE "fabric")
    ELSE IF "velocity-plugin.json" \in names THEN (IF garbled THEN "none" ELSE "velocity")
    ELSE IF \E n \in names : EndsWithModsToml(n) THEN "forge"
    ELSE "none"

\* the if-chain of extract_plugin_meta over zf.namelist(): the plugin_type
\* of the PluginMeta it returns, "none" for None. garbled: the manifests'
\* text cannot be parsed; _parse_bukkit_yml then returns default metadata
\* of its type, json.loads raises and the handler returns None, and
\* mods.toml is not read at all
manifest_type(names, garbled) ==
    IF "plugin.yml" \in names THEN "bukkit"
    ELSE IF "bungee.yml" \in names THEN "bungeecord"
    ELSE IF "velocity-plugin.json" \in names THEN (IF garbled THEN "none" ELSE "velocity")
    ELSE IF "fabric.mod.json" \in names THEN (IF garbled THEN "none" ELSE "fabric")
    ELSE IF \E n \in names : EndsWithModsToml(n) THEN "forge"
    ELSE "none"

\* extract_plugin_meta of a .jar file: None unless it opens as a zip
extract_type(zip, names, garbled) ==
    IF zip THEN manifest_type(names, garbled) ELSE "none"

InitManifest ==
    /\ installed = <<>>
    /\ saved = <<>>
    /\ plugdir = <<>>
    /\ backupdir = <<>>
    /\ now = 0
    /\ last = NoCall
    /\ world \in [zip : BOOLEAN, names : SUBSET EntryNames, garbled : BOOLEAN]
    /\ stack = <<>>
    /\ trace = NoTrace
    /\ cache = <<>>

\* extract_plugin_meta(jar_path)
ExtractPluginMeta ==
    /\ last' = [op |-> "extract",
                plugin_type |-> extract_type(world.zip, world.names, world.garbled)]
    /\ UNCHANGED <<installed, saved, plugdir, backupdir, now, world, stack, trace, cache>>

NextManifest == ExtractPluginMeta

SpecManifest == InitManifest /\ [][NextManifest]_vars

\* the manifests by priority and the plugin_type each stands for
Priority ==
    << [files |-> {"plugin.yml"}, type |-> "bukkit"],
       [files |-> {"bungee.yml"}, type |-> "bungeecord"],
       [files |-> {"velocity-plugin.json"}, type |-> "velocity"],
       [files |-> {"fabric.mod.json"}, type |-> "fabric"],
       [files |-> {"META-INF/mods.toml", "mods.toml"}, type |-> "forge"] >>

Present == {i \in DOMAIN Priority : Priority[i].files \cap world.names # {}}

\* C32: extract_plugin_meta reads the manifest of highest priority among
\* plugin.yml, bungee.yml, velocity-plugin.json, fabric.mod.json and any
\* entry ending in mods.toml, and that one only: the metadata has its
\* type (or is nothing, when that manifest cannot be parsed), never the
\* type of a manifest of lower priority; an archive with none of them
\* yields nothing.
C32_ManifestByPriority ==
    (last.op = "extract" /\ world.zip) =>
        IF Present = {}
        THEN last.plugin_type = "none"
        ELSE LET top == CHOOSE i \in Present : \A j \in Present : i <= j
             IN  IF world.garbled /\ Priority[top].type \in {"velocity", "fabric"}
                 THEN last.plugin_type = "none"
                 ELSE last.plugin_type = Priority[top].type

\* an archive with a Velocity, a Fabric and a Forge manifest is a Velocity plugin
C32_Witness ==
    /\ last.op = "extract" /\ world.zip /\ ~world.garbled
    /\ {"velocity-plugin.json", "fabric.mod.json", "mods.toml"} \subseteq world.names
    /\ last.plugin_type = "velocity"

\* C33: install_from_file fails without side effects: for a file that is
\* missing, is not a .jar or fails validation it returns a failed Result
\* and leaves the plugin directory, the backup directory and the registry
\* as they were; the plugin directory changes only in a call that passed
\* validation, and then holds a valid archive at the file's name.
C33_FromFileFailsWithoutEffect ==
    [][last'.op = "from_file"
       => /\ Ended({"from_file"}, {"not_found", "not_jar", "validation"})
             => (/\ ~last'.ok
                 /\ plugdir' = plugdir /\ backupdir' = backupdir
                 /\ installed' = installed /\ saved' = saved)
          /\ plugdir' # plugdir
             => (/\ last'.ok
                 /\ IsValid(last'.name, ContentAt(plugdir', last'.name)))]_vars

\* a corrupt archive was refused
C33_Witness ==
    last.op = "from_file" /\ ~last.ok /\ last.why = "validation" /\ last.dl = "notzip"

\* C34: whenever install_plugin returns success, the already-installed
\* short-circuit included, the registry holds a record for the plugin and
\* the archive that record names is in the plugin directory (a record
\* found by name as get_plugin compares names).
C34_SuccessMeansArchiveInPlace ==
    (last.op = "install" /\ last.ok) =>
        \E i \in DOMAIN installed :
            /\ LowerStr(installed[i].name) = LowerStr(last.name)
            /\ Exists(plugdir, installed[i].filename)

\* the records get_plugin could answer a name with
Matching(inst, name) == {i \in DOMAIN inst : LowerStr(inst[i].name) = LowerStr(name)}

\* the previous call was an install_plugin that downloaded and registered the
\* newest release the owning adapter lists, and the plugin has one record
InstalledNewest ==
    /\ last.op = "install" /\ last.why = "installed"
    /\ last.res \in {"2", "latest"}
    /\ Cardinality(Matching(installed, last.name)) = 1

\* C35: right after install_plugin has installed the newest release the owning
\* adapter lists, update_plugin for that plugin, the adapter still listing
\* the same releases, returns "already up to date" and downloads nothing.
C35_UpdateAfterInstallIsUpToDate ==
    [][(InstalledNewest /\ last'.op = "update" /\ last'.name = last.name
            /\ last'.res = "2")
        => (last'.why = "up_to_date" /\ plugdir' = plugdir)]_vars

\* C36: no two registry records name the same archive file.
C36_NoTwoRecordsShareArchive ==
    \A i, j \in DOMAIN installed :
        installed[i].filename = installed[j].filename => i = j

\* C37: uninstall_plugin deletes an archive from the plugin directory only
\* if the same call put a copy with the same bytes into the backup
\* directory; a call that made no backup leaves archive and record in place.
C37_UninstallDeletesOnlyBackedUp ==
    [][(last'.op = "uninstall" /\ ~last'.raised) =>
        /\ \A f \in DOMAIN plugdir \ DOMAIN plugdir' :
              \E b \in DOMAIN backupdir' \ DOMAIN backupdir :
                  backupdir'[b].content = plugdir[f].content
        /\ (backupdir' = backupdir /\ last'.why = "removed" /\ Exists(plugdir, RecordOf(installed, last'.name).filename))
              => (plugdir' = plugdir /\ installed' = installed)]_vars

----------------------------------------------------------------------------
(* Transactions as coroutines on one event loop: a step runs from one await
   to the next, and only there another coroutine may run *)

\* the plugins of the interleaving scenarios: two names that differ
AsyncPlugins == {Plugin("A"), Plugin("B")}

\* calls started in one scenario, all of which may be in flight at once
MaxCalls == 2

\* the frame of a suspended install_plugin or update_plugin: where it waits,
\* and its locals (the table and the record its last look found)
Task(op, plugin, version_id) ==
    [op |-> op, plugin |-> plugin, version_id |-> version_id, pc |-> "start",
     version |-> "", dest |-> <<>>, seen |-> <<>>,
     held |-> NoRec, attached |-> FALSE]

Without(seq, i) == [k \in 1..(Len(seq) - 1) |-> IF k < i THEN seq[k] ELSE seq[k + 1]]

\* the record of exactly that name, as the filters p.name != name compare
ExactIdx(inst, name) ==
    LET hits == {k \in DOMAIN inst : inst[k].name = name}
    IN  IF hits = {} THEN 0 ELSE CHOOSE k \in hits : \A j \in hits : k <= j

\* the record object an update holds: in the table, or dropped from it
Holding(t) ==
    IF t.attached THEN installed[ExactIdx(installed, t.held.name)] ELSE t.held

\* the filter of install_plugin and uninstall_plugin builds a new table
\* without the records of that name: an update that holds one of them
\* keeps the object, which is in no table any more
Detach(stk, inst, name) ==
    [k \in DOMAIN stk |->
        IF stk[k].op = "update" /\ stk[k].attached /\ stk[k].held.name = name
        THEN [stk[k] EXCEPT !.attached = FALSE,
                            !.held = inst[ExactIdx(inst, name)]]
        ELSE stk[k]]

\* a finished call: its Result, and how many other coroutines were in
\* flight when it returned
Done(t, ok, why, others) ==
    [op |-> t.op, name |-> t.plugin.name, res |-> t.version, ok |-> ok, why |-> why,
     others |-> others, attached |-> t.attached]

\* the clock is read only when a file is written
Clock == now' = IF <<plugdir', backupdir'>> = <<plugdir, backupdir>> THEN now ELSE now + 1

\* coroutine i returns a Result (stk: the frames after this step)
Returns(i, stk, t, ok, why) ==
    /\ stack' = Without(stk, i)
    /\ trace' = Append(trace, Done(t, ok, why, Len(stk) - 1))
    /\ last' = [op |-> t.op, name |-> t.plugin.name, res |-> t.version,
                ok |-> ok, why |-> why, dl |-> "none"]
    /\ UNCHANGED <<world, cache>>

\* coroutine i runs into its next await
Suspends(i, t) ==
    /\ stack' = [stack EXCEPT ![i] = t]
    /\ trace' = trace
    /\ last' = [NoCall EXCEPT !.op = "step"]
    /\ UNCHANGED <<world, cache>>

CanStart == Len(stack) + Len(trace) < MaxCalls

\* release 1 of plugin A as an earlier run of the manager installed it
Earlier == Record(<<"A">>, "1", "modrinth", "A", <<"A", "-", "1", ".jar">>)

\* the manager is constructed over an empty registry, or over the registry
\* and plugin directory an earlier run left
InitAsync ==
    /\ installed \in {<<>>, <<Earlier>>}
    /\ saved = installed
    /\ plugdir = [f \in {installed[k].filename : k \in DOMAIN installed} |->
                     File(Genuine(<<"A">>, "1"), 0)]
    /\ backupdir = <<>>
    /\ now = 0
    /\ last = NoCall
    /\ world = NoWorld
    /\ stack = <<>>
    /\ trace = <<>>
    /\ cache = <<>>

\* (mutant) the table is rebuilt from the one seen before the download
commit_record_from_snapshot(inst, seen, record) ==
    Append(WithoutName(seen, record.name), record)

\* install_plugin step 10: the table as it is now, without the records of
\* that name, plus the new record
commit_record(inst, seen, record) ==
    Append(WithoutName(inst, record.name), record)

\* install_plugin is called and waits for _resolve_version
BeginInstall ==
    \E plugin \in AsyncPlugins, version_id \in {"1", None} :
        /\ CanStart
        /\ stack' = Append(stack, [Task("install", plugin, version_id)
                                      EXCEPT !.pc = "resolve"])
        /\ trace' = trace
        /\ last' = [NoCall EXCEPT !.op = "step"]
        /\ UNCHANGED <<installed, saved, plugdir, backupdir, now, world, cache>>

\* install_plugin from the answer of _resolve_version to the download's
\* request: file name, idempotence check, backup
InstallResolved ==
    \E i \in DOMAIN stack : \E versions \in VersionLists(stack[i].plugin) :
        LET t == stack[i]
            r == resolve_version(t.plugin, versions, t.version_id, TRUE)
            e == get_plugin_idx(installed, t.plugin.name)
            t1 == [t EXCEPT !.version = r.version]
        IN  /\ t.op = "install" /\ t.pc = "resolve"
            /\ IF r.url = NoUrl
               THEN /\ Returns(i, stack, t1, FALSE, "unresolved")
                    /\ UNCHANGED <<installed, saved, plugdir, backupdir>>
               ELSE IF e # 0 /\ installed[e].version = r.version
               THEN /\ Returns(i, stack, t1, TRUE, "already_installed")
                    /\ UNCHANGED <<installed, saved, plugdir, backupdir>>
               ELSE /\ backupdir' = IF e # 0
                                    THEN backup_plugin(plugdir, backupdir, installed[e], now)
                                    ELSE backupdir
                    /\ Suspends(i, [t1 EXCEPT !.pc = "get", !.seen = installed,
                                              !.dest = safe_filename(t.plugin.name, r.url)])
                    /\ UNCHANGED <<installed, saved, plugdir>>
            /\ Clock

\* _download_file from the response to the first chunk: a status other
\* than 200 ends it, else open(dest, "wb") creates or empties the file
DownloadOpens ==
    \E i \in DOMAIN stack, status \in {"200", "404"} :
        LET t == stack[i]
        IN  /\ t.pc = "get"
            /\ IF status # "200"
               THEN /\ Returns(i, stack, t, FALSE, "download")
                    /\ UNCHANGED <<installed, saved, plugdir, backupdir>>
               ELSE /\ plugdir' = Put(plugdir, t.dest,
                                      File(Bytes("partial", t.plugin.name, t.version), now))
                    /\ Suspends(i, [t EXCEPT !.pc = "chunks"])
                    /\ UNCHANGED <<installed, saved, backupdir>>
            /\ Clock

\* the plugin directory once the last chunk is written: nothing under the
\* name if the file was unlinked while open, the release if nobody else
\* wrote to the file, else the bytes of two writers mixed
Written(pdir, t) ==
    LET mine == {Bytes("partial", t.plugin.name, t.version),
                 Genuine(t.plugin.name, t.version)}
    IN  IF ~Exists(pdir, t.dest)
        THEN pdir
        ELSE IF pdir[t.dest].content \in mine
        THEN Put(pdir, t.dest, File(Genuine(t.plugin.name, t.version), now))
        ELSE Put(pdir, t.dest, File(Bytes("notzip", t.plugin.name, t.version), now))

\* install_plugin from the download's chunks to its Result: validation,
\* version, registration
InstallFinishes ==
    \E i \in DOMAIN stack, body \in {"cut", "whole"} :
        LET t == stack[i]
            pdir1 == Written(plugdir, t)
        IN  /\ t.op = "install" /\ t.pc = "chunks"
            /\ IF body = "cut"
               THEN /\ Returns(i, stack, t, FALSE, "download")
                    /\ UNCHANGED <<installed, saved, plugdir, backupdir>>
               ELSE IF ~IsValid(t.dest, FileAt(pdir1, t.dest).content)
               THEN /\ plugdir' = Unlink(pdir1, t.dest)
                    /\ Returns(i, stack, t, FALSE, "validation")
                    /\ UNCHANGED <<installed, saved, backupdir>>
               ELSE
               LET meta == extract_plugin_meta(t.dest, pdir1[t.dest].content)
                   version == IF meta.version # "" THEN meta.version ELSE t.version
                   record == Record(t.plugin.name, version, t.plugin.source,
                                    t.plugin.id, t.dest)
                   inst1 == commit_record(installed, t.seen, record)
               IN  /\ plugdir' = pdir1
                   /\ installed' = inst1
                   /\ saved' = inst1
                   /\ Returns(i, Detach(stack, installed, t.plugin.name), t, TRUE, "installed")
                   /\ UNCHANGED backupdir
            /\ Clock

\* update_plugin is called: no record, or it waits for _get_versions
BeginUpdate ==
    \E plugin \in AsyncPlugins :
        LET e == get_plugin_idx(installed, plugin.name)
            t == Task("update", plugin, None)
        IN  /\ CanStart
            /\ IF e = 0
               THEN /\ Returns(Len(stack) + 1, Append(stack, t), t, FALSE, "not_installed")
               ELSE /\ stack' = Append(stack, [t EXCEPT !.pc = "versions", !.attached = TRUE,
                                                        !.held = installed[e]])
                    /\ trace' = trace
                    /\ last' = [NoCall EXCEPT !.op = "step"]
                    /\ UNCHANGED <<world, cache>>
            /\ UNCHANGED <<installed, saved, plugdir, backupdir, now>>

\* update_plugin from the answer of _get_versions to the download's request
UpdateListed ==
    \E i \in DOMAIN stack : \E versions \in VersionLists(stack[i].plugin) :
        LET t == stack[i]
            record == Holding(t)
            vs == get_versions(record, versions)
        IN  /\ t.op = "update" /\ t.pc = "versions"
            /\ IF vs = <<>>
               THEN /\ Returns(i, stack, t, FALSE, "no_versions")
                    /\ UNCHANGED <<installed, saved, plugdir, backupdir>>
               ELSE IF vs[1].version_number = record.version
               THEN /\ Returns(i, stack, [t EXCEPT !.version = vs[1].version_number],
                               TRUE, "up_to_date")
                    /\ UNCHANGED <<installed, saved, plugdir, backupdir>>
               ELSE /\ backupdir' = backup_plugin(plugdir, backupdir, record, now)
                    /\ Suspends(i, [t EXCEPT !.pc = "get", !.dest = record.filename,
                                             !.version = vs[1].version_number])
                    /\ UNCHANGED <<installed, saved, plugdir>>
            /\ Clock

\* update_plugin from the download's chunks to its Result: validation,
\* restore, the new version written into the record it holds, save
UpdateFinishes ==
    \E i \in DOMAIN stack, body \in {"cut", "whole"} :
        LET t == stack[i]
            record == Holding(t)
            pdir1 == Written(plugdir, t)
        IN  /\ t.op = "update" /\ t.pc = "chunks"
            /\ IF body = "cut"
               THEN /\ Returns(i, stack, t, FALSE, "download")
                    /\ UNCHANGED <<installed, saved, plugdir, backupdir>>
               ELSE IF ~IsValid(t.dest, FileAt(pdir1, t.dest).content)
               THEN /\ \/ /\ LatestBackups(backupdir, record) = {}
                          /\ plugdir' = pdir1
                       \/ \E b \in LatestBackups(backupdir, record) :
                              plugdir' = Put(pdir1, record.filename, backupdir[b])
                    /\ Returns(i, stack, t, FALSE, "validation")
                    /\ UNCHANGED <<installed, saved, backupdir>>
               ELSE
               LET inst1 == IF t.attached
                            THEN [installed EXCEPT
                                     ![ExactIdx(installed, record.name)].version = t.version]
                            ELSE installed
               IN  /\ plugdir' = pdir1
                   /\ installed' = inst1
                   /\ saved' = inst1
                   /\ Returns(i, stack, t, TRUE, "updated")
                   /\ UNCHANGED backupdir
            /\ Clock

\* uninstall_plugin, which has no await
UninstallNow ==
    \E plugin \in AsyncPlugins :
        LET out == uninstall_steps(Cur, plugin.name, now)
            t == Task("uninstall", plugin, None)
            stk == IF out.ok THEN Detach(stack, installed, plugin.name) ELSE stack
        IN  /\ CanStart
            /\ Become(out.st)
            /\ Returns(Len(stack) + 1, Append(stk, t), t, out.ok, out.why)
            /\ Clock

NextAsync ==
    \/ BeginInstall
    \/ InstallResolved
    \/ DownloadOpens
    \/ InstallFinishes
    \/ BeginUpdate
    \/ UpdateListed
    \/ UpdateFinishes
    \/ UninstallNow

SpecAsync == InitAsync /\ [][NextAsync]_vars

HasExact(inst, name) == ExactIdx(inst, name) # 0

\* the only two calls that have returned: install_plugin of two names, both
\* with success
TwoInstallsReturned ==
    /\ Len(trace) = 2
    /\ \A k \in 1..2 : trace[k].op = "install" /\ trace[k].ok
    /\ trace[1].name # trace[2].name

C39_UpdateSuccessMeansNewVersionRecorded ==
    (last.op = "update" /\ last.ok) =>
        /\ \E k \in DOMAIN installed :
              installed[k].name = last.name /\ installed[k].version = last.res
        /\ \E k \in DOMAIN saved :
              saved[k].name = last.name /\ saved[k].version = last.res

----------------------------------------------------------------------------
(* One adapter operation after another, and what each leaves in the cache *)

\* the operations of an adapter that go through the cache
CachedOps == {"search", "get_plugin_info", "get_versions"}

\* the adapters of these scenarios (CurseForge with its credential set)
CachedSources == {"modrinth", "curseforge"}

\* what the registry has under the request: nothing, or something
Payloads == {<<>>, <<"x">>}

\* hours between one call and the next: within the entry's life, or past it
Gaps == {TtlHours, TtlHours + 1}

\* the value a call returns for what the registry sent: a list as it is
\* for search and get_versions, a PluginInfo for get_plugin_info
Parsed(op, data) == IF op = "get_plugin_info" THEN <<"info">> \o data ELSE data

\* return [] or return None
Failure(op) == IF op = "get_plugin_info" THEN <<None>> ELSE <<>>

\* (mutant) the value of a failed request is cached like any other
adapter_call_caching_failures(op, s, store, net, data, t) ==
    LET g == cache_get(store, <<s, op>>, t)
    IN  IF g.hit THEN Fetched(g.store, g.value, FALSE)
        ELSE IF net # "ok"
        THEN Fetched(cache_set(g.store, <<s, op>>, Failure(op), t), Failure(op), TRUE)
        ELSE Fetched(cache_set(g.store, <<s, op>>, Parsed(op, data), t),
                     Parsed(op, data), TRUE)

\* <Adapter>.search / get_plugin_info / get_versions: a cached value is
\* returned as it is; a status other than 200 or an exception returns the
\* empty answer; what arrived is cached and returned
adapter_call(op, s, store, net, data, t) ==
    LET g == cache_get(store, <<s, op>>, t)
    IN  IF g.hit THEN Fetched(g.store, g.value, FALSE)
        ELSE IF net # "ok" THEN Fetched(g.store, Failure(op), TRUE)
        ELSE Fetched(cache_set(g.store, <<s, op>>, Parsed(op, data), t),
                     Parsed(op, data), TRUE)

InitAdapter ==
    /\ installed = <<>>
    /\ saved = <<>>
    /\ plugdir = <<>>
    /\ backupdir = <<>>
    /\ now = 0
    /\ last = NoCall
    /\ world = NoWorld
    /\ stack = <<>>
    /\ trace = NoTrace
    /\ cache = <<>>

\* an adapter operation is called, some hours after the call before
AdapterCall ==
    \E op \in CachedOps, s \in CachedSources, net \in NetOutcomes,
       data \in Payloads, gap \in Gaps :
        LET r == adapter_call(op, s, cache, net, data, now + gap)
        IN  /\ now + gap <= MaxClock
            /\ cache' = r.store
            /\ now' = now + gap
            /\ last' = [op |-> op, key |-> <<s, op>>, net |-> net,
                        requested |-> r.requested, value |-> r.value]
            /\ UNCHANGED <<installed, saved, plugdir, backupdir, world, stack, trace>>

NextAdapter == AdapterCall

SpecAdapter == InitAdapter /\ [][NextAdapter]_vars

\* the call that just returned sent a request, and the request failed
FailedRequest(c) == c.op \in CachedOps /\ c.requested /\ c.net # "ok"

\* the call that just returned has its answer from the registry or the cache
Answered(c) == c.op \in CachedOps /\ ~(c.requested /\ c.net # "ok")

\* C40: a failed adapter call never populates the cache: it adds no entry
\* and rewrites none, and leaves none under its own key, so the next
\* identical call sends a request; after a call that was answered, an empty
\* answer included, the next identical call is answered from the cache
\* without a request as long as the entry has not expired.
C40_FailuresAreNotCached ==
    [][last'.op \in CachedOps =>
        /\ FailedRequest(last') =>
              /\ \A k \in DOMAIN cache' : k \in DOMAIN cache /\ cache'[k] = cache[k]
              /\ last'.key \notin DOMAIN cache'
        /\ (FailedRequest(last) /\ last'.key = last.key) => last'.requested
        /\ (Answered(last) /\ last'.key = last.key
                /\ now' - cache[last.key].ts <= TtlHours) =>
              (~last'.requested /\ last'.value = last.value)]_vars

\* an empty answer has been served from the cache
C40_Witness ==
    /\ last.op \in CachedOps /\ ~last.requested /\ last.value = <<>>
    /\ last.key \in DOMAIN cache /\ cache[last.key].ts < now

====
